---- MODULE Spec2Model ----
(***************************************************************************)
(* cap-go-telemetry: configuration resolution (package config).           *)
(*                                                                         *)
(* Go pointers are modelled as either Nil or the record pointed to.        *)
(* Go errors are modelled as the chain of wrapped messages, outermost      *)
(* first; the empty chain is the nil error.                                *)
(***************************************************************************)
EXTENDS Integers, Sequences, FiniteSets, TLC

VARIABLES env, file, configFile, call, ret,
          sink, exporters, closed, tasks, otel, providers, telemetry

\* the console exporters, the exporters Shutdown has been called on, the
\* tasks that call them, the sink they write to, and the OpenTelemetry
\* globals with the providers and the Telemetry instance of the process
processVars == <<sink, exporters, closed, tasks, otel, providers, telemetry>>

vars == <<env, file, configFile, call, ret, processVars>>

Nil == [nil |-> TRUE]

NoErr == <<>>

ExporterNames == {"span", "metric", "log"}

\* os.Stdout
Stdout == [fd |-> 1]

\* NewSpanExporter(), NewMetricExporter(), NewLogExporter(): the default
\* writer (standard output) and the default formatter
NewExporter(x) == [writer |-> Stdout, formatter |-> "default"]

Idle == [pc |-> "idle", output |-> <<>>]

NoProviders == [tracer |-> "none", meter |-> "none"]

NoGlobals == [TracerProvider |-> Nil, MeterProvider |-> Nil, TextMapPropagator |-> Nil]

NotCreated == [created |-> FALSE]

\* a process that has constructed the three exporters and has not called
\* New
InitRuntime ==
    /\ sink = <<>>
    /\ exporters = [x \in ExporterNames |-> NewExporter(x)]
    /\ closed = {}
    /\ tasks = [x \in ExporterNames |-> Idle]
    /\ otel = NoGlobals
    /\ providers = NoProviders
    /\ telemetry = NotCreated

(***************************************************************************)
(* Bounds of the model.                                                    *)
(***************************************************************************)
MaxIntervalSteps == 1

IntervalStepMillis == 30000

IntervalVals == {-1, 0} \cup {k * IntervalStepMillis : k \in 1..MaxIntervalSteps}

(***************************************************************************)
(* Configuration types and defaults.                                       *)
(***************************************************************************)
ExporterConfig(module, class) == [Module |-> module, Class |-> class]

SamplerConfig(kind, root, ratio, paths) ==
    [Kind |-> kind, Root |-> root, Ratio |-> ratio, IgnoreIncomingPaths |-> paths]

MetricsExportConfig(millis) == [ExportIntervalMillis |-> millis]

TracingConfig(enabled, sampler, exporter, hrtime, tx, hana) ==
    [Enabled |-> enabled, Sampler |-> sampler, Exporter |-> exporter,
     HRTime |-> hrtime, TxEnabled |-> tx, HanaPrompt |-> hana]

MetricsConfig(enabled, exporter, config, dbpool, queue, host, runtime) ==
    [Enabled |-> enabled, Exporter |-> exporter, Config |-> config,
     DBPool |-> dbpool, Queue |-> queue, HostMetrics |-> host,
     RuntimeMetrics |-> runtime]

LoggingConfig(enabled, exporter) == [Enabled |-> enabled, Exporter |-> exporter]

DefaultExportIntervalMillis == 60000

DefaultServiceName == "CAP Application"

DefaultKind == "telemetry-to-console"

(***************************************************************************)
(* The preset catalog.  A block a preset does not mention is Nil; the      *)
(* fields a preset block does not mention hold Go's zero values.           *)
(***************************************************************************)
PresetTracing(module, class) ==
    TracingConfig(TRUE, Nil, ExporterConfig(module, class), FALSE, FALSE, FALSE)

PresetMetrics(module, class) ==
    MetricsConfig(TRUE, ExporterConfig(module, class), Nil, FALSE, FALSE, FALSE, FALSE)

PredefinedKind(name, tracing, metrics, logging) ==
    [Name |-> name, Tracing |-> tracing, Metrics |-> metrics, Logging |-> logging]

KindNames == {"telemetry-to-console", "telemetry-to-dynatrace",
              "telemetry-to-cloud-logging", "telemetry-to-jaeger",
              "telemetry-to-otlp"}

GetPredefinedKinds ==
    [k \in KindNames |->
       CASE k = "telemetry-to-console" ->
              PredefinedKind(k, PresetTracing("console", "ConsoleSpanExporter"),
                                PresetMetrics("console", "ConsoleMetricExporter"), Nil)
         [] k = "telemetry-to-dynatrace" ->
              PredefinedKind(k, PresetTracing("otlp", "OTLPTraceExporter"),
                                PresetMetrics("otlp", "OTLPMetricExporter"), Nil)
         [] k = "telemetry-to-cloud-logging" ->
              PredefinedKind(k, PresetTracing("otlp-grpc", "OTLPTraceExporter"),
                                PresetMetrics("otlp-grpc", "OTLPMetricExporter"), Nil)
         [] k = "telemetry-to-jaeger" ->
              PredefinedKind(k, PresetTracing("jaeger", "JaegerExporter"), Nil, Nil)
         [] k = "telemetry-to-otlp" ->
              PredefinedKind(k, PresetTracing("otlp-env", "OTLPTraceExporter"),
                                PresetMetrics("otlp-env", "OTLPMetricExporter"), Nil)]

(***************************************************************************)
(* Loader.applyPredefinedKind: returns the configuration as the method     *)
(* leaves it and the error it returns.                                     *)
(***************************************************************************)
\* MergeBlock, but a nil block is left nil
MergeBlock_NoAdopt(block, preset) ==
    IF block # Nil /\ preset # Nil /\ block.Exporter = Nil
    THEN [block EXCEPT !.Exporter = preset.Exporter]
    ELSE block

\* MergeBlock, but the preset's exporter replaces the exporter of the block
MergeBlock_Overwrite(block, preset) ==
    IF block = Nil /\ preset # Nil THEN preset
    ELSE IF block # Nil /\ preset # Nil
         THEN [block EXCEPT !.Exporter = preset.Exporter]
         ELSE block

MergeBlock(block, preset) ==
    IF block = Nil /\ preset # Nil THEN preset
    ELSE IF block # Nil /\ preset # Nil
         THEN IF block.Exporter = Nil
              THEN [block EXCEPT !.Exporter = preset.Exporter]
              ELSE block
         ELSE block

\* applyPredefinedKind, but a name outside the catalog is let through
applyPredefinedKind_IgnoreUnknown(config) ==
    IF config.Kind \notin DOMAIN GetPredefinedKinds
    THEN [cfg |-> config, err |-> NoErr]
    ELSE LET predefined == GetPredefinedKinds[config.Kind]
         IN  [cfg |-> [config EXCEPT
                         !.Tracing = MergeBlock(config.Tracing, predefined.Tracing),
                         !.Metrics = MergeBlock(config.Metrics, predefined.Metrics),
                         !.Logging = MergeBlock(config.Logging, predefined.Logging)],
              err |-> NoErr]

applyPredefinedKind(config) ==
    IF config.Kind \notin DOMAIN GetPredefinedKinds
    THEN [cfg |-> config, err |-> <<"unknown predefined kind">>]
    ELSE LET predefined == GetPredefinedKinds[config.Kind]
         IN  [cfg |-> [config EXCEPT
                         !.Tracing = MergeBlock(config.Tracing, predefined.Tracing),
                         !.Metrics = MergeBlock(config.Metrics, predefined.Metrics),
                         !.Logging = MergeBlock(config.Logging, predefined.Logging)],
              err |-> NoErr]

(***************************************************************************)
(* Loader.validateConfig: the configuration is a pointer, so what the      *)
(* method has written before it returns stays written.                     *)
(***************************************************************************)
validateServiceName(config) ==
    IF config.ServiceName = ""
    THEN [config EXCEPT !.ServiceName = DefaultServiceName]
    ELSE config

\* validateMetricsInterval, but a nil export configuration is left nil
validateMetricsInterval_Skip(config) == config

validateMetricsInterval(config) ==
    IF config.Metrics.Config = Nil
    THEN [config EXCEPT !.Metrics.Config = MetricsExportConfig(DefaultExportIntervalMillis)]
    ELSE config

\* validateConfig, but the tracing exporter is checked before the sampler
\* and the logging block is not checked
validateConfig_Reordered(config) ==
    LET c1 == validateServiceName(config)
    IN  IF c1.Tracing # Nil /\ c1.Tracing.Enabled /\ c1.Tracing.Exporter = Nil
        THEN [cfg |-> c1, err |-> <<"tracing exporter configuration is required when tracing is enabled">>]
        ELSE IF c1.Tracing # Nil /\ c1.Tracing.Enabled /\ c1.Tracing.Sampler = Nil
        THEN [cfg |-> c1, err |-> <<"tracing sampler configuration is required when tracing is enabled">>]
        ELSE IF c1.Metrics # Nil /\ c1.Metrics.Enabled /\ c1.Metrics.Exporter = Nil
        THEN [cfg |-> c1, err |-> <<"metrics exporter configuration is required when metrics is enabled">>]
        ELSE LET c2 == IF c1.Metrics # Nil /\ c1.Metrics.Enabled
                       THEN validateMetricsInterval(c1)
                       ELSE c1
             IN  [cfg |-> c2, err |-> NoErr]

validateConfig(config) ==
    LET c1 == validateServiceName(config)
    IN  IF c1.Tracing # Nil /\ c1.Tracing.Enabled /\ c1.Tracing.Sampler = Nil
        THEN [cfg |-> c1, err |-> <<"tracing sampler configuration is required when tracing is enabled">>]
        ELSE IF c1.Tracing # Nil /\ c1.Tracing.Enabled /\ c1.Tracing.Exporter = Nil
        THEN [cfg |-> c1, err |-> <<"tracing exporter configuration is required when tracing is enabled">>]
        ELSE IF c1.Metrics # Nil /\ c1.Metrics.Enabled /\ c1.Metrics.Exporter = Nil
        THEN [cfg |-> c1, err |-> <<"metrics exporter configuration is required when metrics is enabled">>]
        ELSE LET c2 == IF c1.Metrics # Nil /\ c1.Metrics.Enabled
                       THEN validateMetricsInterval(c1)
                       ELSE c1
             IN  IF c2.Logging # Nil /\ c2.Logging.Enabled /\ c2.Logging.Exporter = Nil
                 THEN [cfg |-> c2, err |-> <<"logging exporter configuration is required when logging is enabled">>]
                 ELSE [cfg |-> c2, err |-> NoErr]

(***************************************************************************)
(* MetricsExportConfig.GetExportInterval, in milliseconds.                 *)
(***************************************************************************)
GetExportInterval(m) ==
    IF m.ExportIntervalMillis <= 0
    THEN 60 * 1000
    ELSE m.ExportIntervalMillis

(***************************************************************************)
(* The process environment.  A variable is either unset or set to a        *)
(* string, possibly the empty one; os.Getenv does not tell the two apart.  *)
(***************************************************************************)
Unset == "<unset>"

EnvKeys == {"NO_TELEMETRY", "OTEL_SERVICE_NAME", "TELEMETRY_KIND",
            "TELEMETRY_HRTIME", "HOST_METRICS_ENABLED",
            "TELEMETRY_TRACING_HRTIME"}

EmptyEnv == [k \in EnvKeys |-> Unset]

Getenv(e, key) == IF key \in DOMAIN e /\ e[key] # Unset THEN e[key] ELSE ""

\* strings.ToLower on the strings the model uses
ToLower(s) ==
    CASE s \in {"FALSE", "False", "false"} -> "false"
      [] s \in {"TRUE", "True", "true"} -> "true"
      [] s \in {"YES", "yes"} -> "yes"
      [] OTHER -> s

getEnvString(e, key, defaultValue) ==
    IF Getenv(e, key) # "" THEN Getenv(e, key) ELSE defaultValue

getEnvBool(e, key, defaultValue) ==
    IF Getenv(e, key) # ""
    THEN IF ToLower(Getenv(e, key)) \in {"false", "0", ""} THEN FALSE ELSE TRUE
    ELSE defaultValue

DefaultSampler ==
    SamplerConfig("ParentBasedSampler", "AlwaysOnSampler", 0,
                  <<"/health", "/metrics", "/ready">>)

NewDefaultTracingConfig(e) ==
    TracingConfig(TRUE, DefaultSampler,
                  ExporterConfig("console", "ConsoleSpanExporter"),
                  getEnvBool(e, "TELEMETRY_HRTIME", FALSE), FALSE, TRUE)

NewDefaultMetricsConfig(e) ==
    MetricsConfig(TRUE, ExporterConfig("console", "ConsoleMetricExporter"),
                  MetricsExportConfig(DefaultExportIntervalMillis),
                  TRUE, TRUE, getEnvBool(e, "HOST_METRICS_ENABLED", TRUE), TRUE)

\* NewDefaultLoggingConfig, but logging is enabled
NewDefaultLoggingConfig_Enabled ==
    LoggingConfig(TRUE, ExporterConfig("console", "ConsoleLogExporter"))

NewDefaultLoggingConfig ==
    LoggingConfig(FALSE, ExporterConfig("console", "ConsoleLogExporter"))

NewDefaultConfig(e) ==
    [Disabled |-> getEnvBool(e, "NO_TELEMETRY", FALSE),
     ServiceName |-> getEnvString(e, "OTEL_SERVICE_NAME", DefaultServiceName),
     Kind |-> getEnvString(e, "TELEMETRY_KIND", DefaultKind),
     Tracing |-> NewDefaultTracingConfig(e),
     Metrics |-> NewDefaultMetricsConfig(e),
     Logging |-> NewDefaultLoggingConfig,
     Instrumentations |->
        [n \in {"http"} |-> [Module |-> "otelhttp", Class |-> "HTTPInstrumentation",
                             Enabled |-> TRUE]]]

IsEnabled(c) == ~c.Disabled

IsTracingEnabled(c) == IsEnabled(c) /\ c.Tracing # Nil /\ c.Tracing.Enabled

IsMetricsEnabled(c) == IsEnabled(c) /\ c.Metrics # Nil /\ c.Metrics.Enabled

IsLoggingEnabled(c) == IsEnabled(c) /\ c.Logging # Nil /\ c.Logging.Enabled

(***************************************************************************)
(* Documents.  A YAML file and a JSON text are both modelled by what they  *)
(* parse to: a map from dotted key paths to typed values.  A key that is   *)
(* not in the map is absent from the text; Null is an explicit null.       *)
(***************************************************************************)
B(v) == [t |-> "bool", v |-> v]

S(v) == [t |-> "str", v |-> v]

I(v) == [t |-> "int", v |-> v]

Null == [t |-> "null"]

EmptyDoc == [k \in {} |-> Null]

Has(d, k) == k \in DOMAIN d

IsNull(d, k) == Has(d, k) /\ d[k].t = "null"

\* strconv.ParseBool
ParseBoolTrue == {"1", "t", "T", "TRUE", "true", "True"}

ParseBoolFalse == {"0", "f", "F", "FALSE", "false", "False"}

\* a bool field: weak is mapstructure's WeaklyTypedInput (viper's default),
\* strict is encoding/json
boolOk(d, k, weak) ==
    \/ ~Has(d, k)
    \/ d[k].t \in {"null", "bool"}
    \/ weak /\ d[k].t = "str" /\ d[k].v \in ParseBoolTrue \cup ParseBoolFalse \cup {""}

boolField(d, k, old, weak) ==
    IF ~Has(d, k) \/ d[k].t = "null" THEN old
    ELSE IF d[k].t = "bool" THEN d[k].v
    ELSE IF weak /\ d[k].t = "str" THEN d[k].v \in ParseBoolTrue
    ELSE old

strOk(d, k, weak) ==
    \/ ~Has(d, k)
    \/ d[k].t \in {"null", "str"}
    \/ weak /\ d[k].t = "bool"

strField(d, k, old, weak) ==
    IF ~Has(d, k) \/ d[k].t = "null" THEN old
    ELSE IF d[k].t = "str" THEN d[k].v
    ELSE IF weak /\ d[k].t = "bool" THEN (IF d[k].v THEN "1" ELSE "0")
    ELSE old

intOk(d, k) == ~Has(d, k) \/ d[k].t \in {"null", "int"}

intField(d, k, old) ==
    IF Has(d, k) /\ d[k].t = "int" THEN d[k].v ELSE old

\* a pointer field: an explicit null makes it nil
ptrField(d, k, old) == IF IsNull(d, k) THEN Nil ELSE old

TracingKeys == {"tracing.enabled", "tracing.hrtime", "tracing.sampler", "tracing.exporter"}

MetricsKeys == {"metrics.enabled", "metrics.host_metrics", "metrics.exporter",
                "metrics.config", "metrics.config.export_interval_millis"}

LoggingKeys == {"logging.enabled", "logging.exporter"}

ZeroTracing == TracingConfig(FALSE, Nil, Nil, FALSE, FALSE, FALSE)

ZeroMetrics == MetricsConfig(FALSE, Nil, Nil, FALSE, FALSE, FALSE, FALSE)

ZeroLogging == LoggingConfig(FALSE, Nil)

decodeTracing(block, d, weak) ==
    IF IsNull(d, "tracing") THEN Nil
    ELSE IF TracingKeys \cap DOMAIN d = {} THEN block
    ELSE LET base == IF block = Nil THEN ZeroTracing ELSE block
         IN  [base EXCEPT
                !.Enabled = boolField(d, "tracing.enabled", @, weak),
                !.HRTime = boolField(d, "tracing.hrtime", @, weak),
                !.Sampler = ptrField(d, "tracing.sampler", @),
                !.Exporter = ptrField(d, "tracing.exporter", @)]

decodeMetricsExport(ptr, d) ==
    IF IsNull(d, "metrics.config") THEN Nil
    ELSE IF ~Has(d, "metrics.config.export_interval_millis") THEN ptr
    ELSE LET base == IF ptr = Nil THEN MetricsExportConfig(0) ELSE ptr
         IN  [base EXCEPT !.ExportIntervalMillis =
                             intField(d, "metrics.config.export_interval_millis", @)]

decodeMetrics(block, d, weak) ==
    IF IsNull(d, "metrics") THEN Nil
    ELSE IF MetricsKeys \cap DOMAIN d = {} THEN block
    ELSE LET base == IF block = Nil THEN ZeroMetrics ELSE block
         IN  [base EXCEPT
                !.Enabled = boolField(d, "metrics.enabled", @, weak),
                !.HostMetrics = boolField(d, "metrics.host_metrics", @, weak),
                !.Exporter = ptrField(d, "metrics.exporter", @),
                !.Config = decodeMetricsExport(@, d)]

decodeLogging(block, d, weak) ==
    IF IsNull(d, "logging") THEN Nil
    ELSE IF LoggingKeys \cap DOMAIN d = {} THEN block
    ELSE LET base == IF block = Nil THEN ZeroLogging ELSE block
         IN  [base EXCEPT
                !.Enabled = boolField(d, "logging.enabled", @, weak),
                !.Exporter = ptrField(d, "logging.exporter", @)]

decodeOk(d, weak) ==
    /\ \A k \in {"disabled", "tracing.enabled", "tracing.hrtime", "metrics.enabled",
                 "metrics.host_metrics", "logging.enabled"} : boolOk(d, k, weak)
    /\ \A k \in {"service_name", "kind"} : strOk(d, k, weak)
    /\ intOk(d, "metrics.config.export_interval_millis")

\* decoding a document into an already populated configuration
decodeConfig(config, d, weak) ==
    [config EXCEPT
       !.Disabled = boolField(d, "disabled", @, weak),
       !.ServiceName = strField(d, "service_name", @, weak),
       !.Kind = strField(d, "kind", @, weak),
       !.Tracing = decodeTracing(@, d, weak),
       !.Metrics = decodeMetrics(@, d, weak),
       !.Logging = decodeLogging(@, d, weak)]

(***************************************************************************)
(* The Loader: a viper instance with env prefix TELEMETRY, the key         *)
(* replacer "." and "-" to "_", and AutomaticEnv.                          *)
(***************************************************************************)
NoFile == [kind |-> "none"]

Malformed == [kind |-> "malformed"]

Doc(d) == [kind |-> "doc", doc |-> d]

SearchedFile == "telemetry.yaml"

\* the environment variable AutomaticEnv consults for a key
EnvKeyOf(k) ==
    CASE k = "disabled" -> "TELEMETRY_DISABLED"
      [] k = "service_name" -> "TELEMETRY_SERVICE_NAME"
      [] k = "kind" -> "TELEMETRY_KIND"
      [] k = "tracing.hrtime" -> "TELEMETRY_TRACING_HRTIME"
      [] k = "tracing.enabled" -> "TELEMETRY_TRACING_ENABLED"
      [] k = "metrics.host_metrics" -> "TELEMETRY_METRICS_HOST_METRICS"
      [] k = "metrics.enabled" -> "TELEMETRY_METRICS_ENABLED"
      [] k = "logging.enabled" -> "TELEMETRY_LOGGING_ENABLED"
      [] OTHER -> "TELEMETRY_" \o k

\* viper.Get of a key of the file: a non-empty environment variable wins
viperGet(e, d, k) ==
    IF Getenv(e, EnvKeyOf(k)) # "" THEN S(Getenv(e, EnvKeyOf(k))) ELSE d[k]

\* viper.AllSettings: the keys of the file that hold a value; a variable
\* of the environment whose key is not in the file is not consulted
AllSettings(e, d) ==
    [k \in {j \in DOMAIN d : d[j].t # "null"} |-> viperGet(e, d, k)]

\* viper.ReadInConfig: cf is the file set by SetConfigFile, "" when the
\* search path is used
ReadInConfig(f, cf) ==
    IF cf = "" /\ f = NoFile
    THEN [err |-> NoErr, found |-> FALSE, doc |-> EmptyDoc]
    ELSE IF cf \notin {"", SearchedFile} \/ f = NoFile
    THEN [err |-> <<"no such file">>, found |-> FALSE, doc |-> EmptyDoc]
    ELSE IF f = Malformed
    THEN [err |-> <<"parse error">>, found |-> TRUE, doc |-> EmptyDoc]
    ELSE [err |-> NoErr, found |-> TRUE, doc |-> f.doc]

Result(config, error, validated) ==
    [cfg |-> config, err |-> error, validated |-> validated]

\* the preset step of Load
applyKindStep(config) ==
    IF config.Kind # "" THEN applyPredefinedKind(config)
    ELSE [cfg |-> config, err |-> NoErr]

\* Loader.Load; validated records whether validateConfig was called
Load(e, f, cf) ==
    LET config == NewDefaultConfig(e)
        rd == ReadInConfig(f, cf)
        settings == AllSettings(e, rd.doc)
    IN  IF rd.err # NoErr
        THEN Result(Nil, <<"failed to read config file">> \o rd.err, FALSE)
        ELSE IF ~decodeOk(settings, TRUE)
        THEN Result(Nil, <<"failed to unmarshal config">>, FALSE)
        ELSE LET k == applyKindStep(decodeConfig(config, settings, TRUE))
             IN  IF k.err # NoErr
                 THEN Result(Nil, <<"failed to apply predefined kind">> \o k.err, FALSE)
                 ELSE LET v == validateConfig(k.cfg)
                      IN  IF v.err # NoErr
                          THEN Result(Nil, <<"configuration validation failed">> \o v.err, TRUE)
                          ELSE Result(v.cfg, NoErr, TRUE)

\* LoadFromJSON, but the text goes through the environment overlay of Load
LoadFromJSON_Overlay(e, text) ==
    LET config == NewDefaultConfig(e)
    IN  IF text = Malformed \/ ~decodeOk(AllSettings(e, text.doc), TRUE)
        THEN Result(Nil, <<"failed to parse JSON config">>, FALSE)
        ELSE LET v == validateConfig(decodeConfig(config, AllSettings(e, text.doc), TRUE))
             IN  IF v.err # NoErr
                 THEN Result(Nil, <<"configuration validation failed">> \o v.err, TRUE)
                 ELSE Result(v.cfg, NoErr, TRUE)

\* Loader.LoadFromJSON
LoadFromJSON(e, text) ==
    LET config == NewDefaultConfig(e)
    IN  IF text = Malformed \/ ~decodeOk(text.doc, FALSE)
        THEN Result(Nil, <<"failed to parse JSON config">>, FALSE)
        ELSE LET v == validateConfig(decodeConfig(config, text.doc, FALSE))
             IN  IF v.err # NoErr
                 THEN Result(Nil, <<"configuration validation failed">> \o v.err, TRUE)
                 ELSE Result(v.cfg, NoErr, TRUE)

(***************************************************************************)
(* Bounded inputs.                                                         *)
(***************************************************************************)
CustomExporter == ExporterConfig("custom", "CustomExporter")

TracingBlocks ==
    {Nil} \cup {TracingConfig(en, sa, ex, TRUE, FALSE, TRUE) :
                  en \in BOOLEAN, sa \in {Nil, DefaultSampler},
                  ex \in {Nil, CustomExporter}}

MetricsBlocks ==
    {Nil} \cup {MetricsConfig(en, ex, cf, TRUE, TRUE, TRUE, TRUE) :
                  en \in BOOLEAN, ex \in {Nil, CustomExporter},
                  cf \in {Nil} \cup {MetricsExportConfig(i) : i \in IntervalVals}}

LoggingBlocks ==
    {Nil} \cup {LoggingConfig(en, ex) : en \in BOOLEAN, ex \in {Nil, CustomExporter}}

Configs ==
    {[Disabled |-> FALSE, ServiceName |-> s, Kind |-> k, Tracing |-> t,
      Metrics |-> m, Logging |-> l, Instrumentations |-> EmptyDoc] :
        s \in {"", "svc"}, k \in KindNames \cup {"bogus", ""},
        t \in TracingBlocks, m \in MetricsBlocks, l \in LoggingBlocks}

\* a document fragment: the key with the value, or nothing when absent
Absent == [t |-> "absent"]

Frag(k, v) == IF v = Absent THEN EmptyDoc ELSE (k :> v)

JSONTracing ==
    {EmptyDoc, Frag("tracing", Null), Frag("tracing.exporter", Null),
     Frag("tracing.sampler", Null), Frag("tracing.hrtime", B(FALSE)),
     Frag("tracing.enabled", B(FALSE)) @@ Frag("tracing.exporter", Null)}

JSONMetrics ==
    {EmptyDoc, Frag("metrics", Null), Frag("metrics.exporter", Null),
     Frag("metrics.config", Null)}
    \cup {Frag("metrics.config.export_interval_millis", I(i)) : i \in IntervalVals}

JSONLogging ==
    {EmptyDoc, Frag("logging.enabled", B(TRUE)),
     Frag("logging.enabled", B(TRUE)) @@ Frag("logging.exporter", Null)}

JSONKinds ==
    {Frag("kind", v) : v \in {Absent, S("telemetry-to-console"),
                              S("telemetry-to-jaeger"), S("bogus"), S("")}}

JSONTexts ==
    {Malformed, Doc(Frag("disabled", S("yes")))}
    \cup {Doc(k @@ b) :
            k \in JSONKinds, b \in JSONTracing \cup JSONMetrics \cup JSONLogging}

Files ==
    {NoFile, Malformed, Doc(Frag("tracing", Null) @@ Frag("metrics.exporter", Null))}
    \cup {Doc(Frag("disabled", a) @@ Frag("service_name", b) @@ Frag("kind", c)
              @@ Frag("tracing.hrtime", d) @@ Frag("metrics.host_metrics", g)) :
            a \in {Absent, B(FALSE)}, b \in {Absent, S("filesvc")},
            c \in {Absent, S("telemetry-to-otlp"), S("bogus")},
            d \in {Absent, B(FALSE)}, g \in {Absent, B(TRUE)}}

Paths == {SearchedFile, "missing.yaml"}

Envs ==
    {[k \in EnvKeys |->
        CASE k = "NO_TELEMETRY" -> a
          [] k = "OTEL_SERVICE_NAME" -> b
          [] k = "TELEMETRY_KIND" -> c
          [] k = "TELEMETRY_HRTIME" -> d
          [] k = "HOST_METRICS_ENABLED" -> g
          [] k = "TELEMETRY_TRACING_HRTIME" -> h] :
        a \in {Unset, "", "False", "yes"}, b \in {Unset, "envsvc"},
        c \in {Unset, "telemetry-to-jaeger", "bogus"}, d \in {Unset, "TRUE"},
        g \in {Unset, "", "0"}, h \in {Unset, "true", "yes"}}

\* the environments that differ from e in one variable
EnvValues == {Unset, "", "0", "False", "yes", "TRUE", "true", "envsvc",
              "telemetry-to-jaeger", "bogus"}

Neighbours(e) == {[e EXCEPT ![k] = v] : k \in EnvKeys, v \in EnvValues}

(***************************************************************************)
(* Operations.  call is the operation last called with its arguments,      *)
(* ret what it returned.                                                   *)
(***************************************************************************)
NoCall == [op |-> "none"]

NoRet == [none |-> TRUE]

ApplyPredefinedKindCall ==
    /\ call = NoCall
    /\ \E c \in Configs :
          /\ call' = [op |-> "applyPredefinedKind", config |-> c]
          /\ ret' = applyPredefinedKind(c)
          /\ UNCHANGED <<env, file, configFile, processVars>>

ValidateConfigCall ==
    /\ call = NoCall
    /\ \E c \in Configs :
          /\ call' = [op |-> "validateConfig", config |-> c]
          /\ ret' = validateConfig(c)
          /\ UNCHANGED <<env, file, configFile, processVars>>

GetExportIntervalCall ==
    /\ call = NoCall
    /\ \E i \in IntervalVals :
          /\ call' = [op |-> "GetExportInterval", m |-> MetricsExportConfig(i)]
          /\ ret' = [val |-> GetExportInterval(MetricsExportConfig(i))]
          /\ UNCHANGED <<env, file, configFile, processVars>>

LoadCall ==
    /\ call = NoCall
    /\ call' = [op |-> "Load"]
    /\ ret' = Load(env, file, configFile)
    /\ configFile' = IF configFile = "" /\ ReadInConfig(file, configFile).found
                     THEN SearchedFile ELSE configFile
    /\ UNCHANGED <<env, file, processVars>>

LoadFromFileCall ==
    /\ call = NoCall
    /\ \E filename \in Paths :
          /\ call' = [op |-> "LoadFromFile", filename |-> filename]
          /\ configFile' = filename
          /\ ret' = Load(env, file, filename)
          /\ UNCHANGED <<env, file, processVars>>

LoadFromJSONCall ==
    /\ call = NoCall
    /\ \E text \in JSONTexts :
          /\ call' = [op |-> "LoadFromJSON", jsonStr |-> text]
          /\ ret' = LoadFromJSON(env, text)
          /\ UNCHANGED <<env, file, configFile, processVars>>

GetEnvBoolCall ==
    /\ call = NoCall
    /\ \E key \in {"NO_TELEMETRY", "TELEMETRY_HRTIME", "HOST_METRICS_ENABLED"},
          defaultValue \in BOOLEAN :
          /\ call' = [op |-> "getEnvBool", key |-> key, defaultValue |-> defaultValue]
          /\ ret' = [val |-> getEnvBool(env, key, defaultValue)]
          /\ UNCHANGED <<env, file, configFile, processVars>>

NewDefaultConfigCall ==
    /\ call = NoCall
    /\ call' = [op |-> "NewDefaultConfig"]
    /\ ret' = [cfg |-> NewDefaultConfig(env)]
    /\ UNCHANGED <<env, file, configFile, processVars>>

\* the caller takes the result; the package is used by one caller at a time
Return ==
    /\ call # NoCall
    /\ call' = NoCall
    /\ ret' = NoRet
    /\ UNCHANGED <<env, file, configFile, processVars>>

(***************************************************************************)
(* Spec: the operations of the package in a process with an empty          *)
(* environment and no configuration file.                                  *)
(***************************************************************************)
Init ==
    /\ env = EmptyEnv
    /\ file = NoFile
    /\ configFile = ""
    /\ call = NoCall
    /\ ret = NoRet
    /\ InitRuntime

Next ==
    \/ ApplyPredefinedKindCall
    \/ ValidateConfigCall
    \/ GetExportIntervalCall
    \/ LoadCall
    \/ LoadFromFileCall
    \/ LoadFromJSONCall
    \/ Return

Spec == Init /\ [][Next]_vars

(***************************************************************************)
(* SpecFile: Load and LoadFromFile under every environment and file.       *)
(***************************************************************************)
InitFile ==
    /\ env \in Envs
    /\ file \in Files
    /\ configFile = ""
    /\ call = NoCall
    /\ ret = NoRet
    /\ InitRuntime

NextFile == LoadCall \/ LoadFromFileCall \/ Return

SpecFile == InitFile /\ [][NextFile]_vars

(***************************************************************************)
(* SpecEnv: the operations that read the environment but no file.          *)
(***************************************************************************)
InitEnv ==
    /\ env \in Envs
    /\ file = NoFile
    /\ configFile = ""
    /\ call = NoCall
    /\ ret = NoRet
    /\ InitRuntime

NextEnv == GetEnvBoolCall \/ NewDefaultConfigCall \/ LoadFromJSONCall \/ Return

SpecEnv == InitEnv /\ [][NextEnv]_vars

(***************************************************************************)
(* Properties.                                                             *)
(***************************************************************************)
Signals == {"Tracing", "Metrics", "Logging"}

Applied == call.op = "applyPredefinedKind" /\ ret.err = NoErr

\* C1: preset merge, absent block.  After applyPredefinedKind succeeds,
\* every signal block that was nil in the configuration equals the block of
\* the selected preset, whole, and stays nil when the preset has no block
\* for that signal.
C1_AbsentBlockAdoptsPreset ==
    Applied =>
       /\ \A sig \in Signals :
             call.config[sig] = Nil =>
                ret.cfg[sig] = GetPredefinedKinds[call.config.Kind][sig]
       /\ call.config.Logging = Nil => ret.cfg.Logging = Nil
       /\ (call.config.Kind = "telemetry-to-jaeger" /\ call.config.Metrics = Nil)
             => ret.cfg.Metrics = Nil
       /\ (call.config.Kind = "telemetry-to-console" /\ call.config.Tracing = Nil)
             => /\ ret.cfg.Tracing.Enabled
                /\ ret.cfg.Tracing.Sampler = Nil
                /\ ret.cfg.Tracing.Exporter =
                      ExporterConfig("console", "ConsoleSpanExporter")

C1_Witness ==
    /\ Applied
    /\ call.config.Kind = "telemetry-to-jaeger"
    /\ call.config.Tracing = Nil
    /\ call.config.Metrics = Nil
    /\ ret.cfg.Tracing # Nil
    /\ ret.cfg.Tracing.Exporter.Module = "jaeger"
    /\ ret.cfg.Metrics = Nil

\* C2: preset merge, present block.  After applyPredefinedKind succeeds, a
\* signal block that was present keeps every field it had, except that a nil
\* exporter becomes the preset's exporter when the preset has a block for
\* the signal; with tracing enabled, a sampler and no exporter, the preset
\* "telemetry-to-console" yields an exporter of module "console".
C2_PresentBlockOnlyExporterFilled ==
    Applied =>
       /\ \A sig \in Signals :
             call.config[sig] # Nil =>
                LET old == call.config[sig]
                    new == ret.cfg[sig]
                    preset == GetPredefinedKinds[call.config.Kind][sig]
                IN  /\ new # Nil
                    /\ [new EXCEPT !.Exporter = Nil] = [old EXCEPT !.Exporter = Nil]
                    /\ old.Exporter # Nil => new.Exporter = old.Exporter
                    /\ (old.Exporter = Nil /\ preset = Nil) => new.Exporter = Nil
                    /\ (old.Exporter = Nil /\ preset # Nil)
                          => new.Exporter = preset.Exporter
       /\ (/\ call.config.Kind = "telemetry-to-console"
           /\ call.config.Tracing # Nil
           /\ call.config.Tracing.Enabled
           /\ call.config.Tracing.Sampler # Nil
           /\ call.config.Tracing.Exporter = Nil)
             => /\ ret.cfg.Tracing.Exporter # Nil
                /\ ret.cfg.Tracing.Exporter.Module = "console"
                /\ ret.cfg.Tracing.Sampler = call.config.Tracing.Sampler

C2_Witness ==
    /\ Applied
    /\ call.config.Kind = "telemetry-to-console"
    /\ call.config.Tracing # Nil
    /\ call.config.Tracing.Enabled
    /\ call.config.Tracing.Sampler = DefaultSampler
    /\ call.config.Tracing.Exporter = Nil
    /\ call.config.Tracing.HRTime
    /\ ret.cfg.Tracing.Exporter.Module = "console"
    /\ ret.cfg.Tracing.HRTime
    /\ call.config.Metrics # Nil
    /\ call.config.Metrics.Exporter = CustomExporter
    /\ ret.cfg.Metrics.Exporter = CustomExporter

LoaderOps == {"Load", "LoadFromFile", "LoadFromJSON"}

\* the preset name Load resolves: TELEMETRY_KIND when it is not empty, else
\* the file's kind, else the default name
ResolvedKind ==
    IF Getenv(env, "TELEMETRY_KIND") # "" THEN Getenv(env, "TELEMETRY_KIND")
    ELSE IF file.kind = "doc" /\ Has(file.doc, "kind") THEN file.doc["kind"].v
    ELSE DefaultKind

\* C3: Load with a preset name that is set and is not in the catalog returns
\* an error and no Configuration, and validateConfig has not been called.
C3_UnknownPresetFails ==
    (call.op \in {"Load", "LoadFromFile"} /\ ResolvedKind \notin KindNames \cup {""})
       => /\ ret.cfg = Nil
          /\ ret.err # NoErr
          /\ ~ret.validated

C3_Witness ==
    /\ call.op = "Load"
    /\ file.kind = "doc"
    /\ Has(file.doc, "kind")
    /\ file.doc["kind"].v = "bogus"
    /\ env["TELEMETRY_KIND"] = Unset
    /\ ret.cfg = Nil
    /\ ret.err = <<"failed to apply predefined kind", "unknown predefined kind">>

SignalEnabled(c, sig) == c[sig] # Nil /\ c[sig].Enabled

\* the requirements of validation, in the order of the claim
Requirements == <<<<"Tracing", "Sampler">>, <<"Tracing", "Exporter">>,
                  <<"Metrics", "Exporter">>, <<"Logging", "Exporter">>>>

Violates(c, r) == SignalEnabled(c, r[1]) /\ c[r[1]][r[2]] = Nil

Satisfies(c) == \A i \in 1..Len(Requirements) : ~Violates(c, Requirements[i])

RequirementMessage(r) ==
    CASE r = <<"Tracing", "Sampler">> ->
           "tracing sampler configuration is required when tracing is enabled"
      [] r = <<"Tracing", "Exporter">> ->
           "tracing exporter configuration is required when tracing is enabled"
      [] r = <<"Metrics", "Exporter">> ->
           "metrics exporter configuration is required when metrics is enabled"
      [] r = <<"Logging", "Exporter">> ->
           "logging exporter configuration is required when logging is enabled"

\* C4: validateConfig succeeds exactly when every enabled signal block has
\* an exporter and an enabled tracing block has a sampler; its error is the
\* message of the first violated requirement in the order tracing sampler,
\* tracing exporter, metrics exporter, logging exporter; and a Configuration
\* returned by Load, LoadFromFile or LoadFromJSON satisfies the requirements.
C4_ValidationRequirements ==
    /\ call.op = "validateConfig" =>
          /\ (ret.err = NoErr) <=> Satisfies(call.config)
          /\ \A i \in 1..Len(Requirements) :
                (/\ Violates(call.config, Requirements[i])
                 /\ \A j \in 1..(i - 1) : ~Violates(call.config, Requirements[j]))
                   => ret.err = <<RequirementMessage(Requirements[i])>>
    /\ (call.op \in LoaderOps /\ ret.err = NoErr) =>
          /\ ret.cfg # Nil
          /\ Satisfies(ret.cfg)
    /\ (call.op \in LoaderOps /\ ret.err # NoErr) => ret.cfg = Nil

C4_Witness ==
    /\ call.op = "validateConfig"
    /\ SignalEnabled(call.config, "Tracing")
    /\ call.config.Tracing.Sampler = Nil
    /\ call.config.Tracing.Exporter = Nil
    /\ SignalEnabled(call.config, "Logging")
    /\ call.config.Logging.Exporter = Nil
    /\ ret.err = <<"tracing sampler configuration is required when tracing is enabled">>

Validated == call.op = "validateConfig" /\ ret.err = NoErr

\* C5 as claimed: after a successful validation with metrics enabled the
\* stored export interval is positive.
C5_StoredIntervalPositive ==
    (Validated /\ SignalEnabled(ret.cfg, "Metrics"))
       => /\ ret.cfg.Metrics.Config # Nil
          /\ ret.cfg.Metrics.Config.ExportIntervalMillis > 0

\* C5: after a successful validation with metrics enabled the export
\* configuration is present: it holds 60000 ms when it was absent, and is
\* left unchanged when it was present, also with a value <= 0, for which
\* GetExportInterval returns 60 seconds.
C5_IntervalDefaulting ==
    (Validated /\ SignalEnabled(ret.cfg, "Metrics"))
       => /\ ret.cfg.Metrics.Config # Nil
          /\ call.config.Metrics.Config = Nil
                => ret.cfg.Metrics.Config.ExportIntervalMillis = 60000
          /\ call.config.Metrics.Config # Nil
                => ret.cfg.Metrics.Config = call.config.Metrics.Config
          /\ ret.cfg.Metrics.Config.ExportIntervalMillis <= 0
                => GetExportInterval(ret.cfg.Metrics.Config) = 60000

C5_Witness ==
    /\ Validated
    /\ SignalEnabled(ret.cfg, "Metrics")
    /\ call.config.Metrics.Config # Nil
    /\ call.config.Metrics.Config.ExportIntervalMillis = 0
    /\ ret.cfg.Metrics.Config.ExportIntervalMillis = 0

EnvSet(key) == env[key] \notin {Unset, ""}

\* the boolean an environment value stands for
EnvTruth(key) == env[key] \notin {"0", "false", "False", "FALSE"}

FileSets(key) == file.kind = "doc" /\ Has(file.doc, key) /\ file.doc[key].t # "null"

\* C6 as claimed: in the result of Load, a field set by an environment
\* variable and by the configuration file has the value of the environment
\* variable, and a field set only by the file has the file's value.
C6_EnvOverFileOverDefault ==
    (call.op = "Load" /\ ret.err = NoErr /\ file.kind = "doc") =>
       /\ (EnvSet("NO_TELEMETRY") /\ FileSets("disabled"))
             => ret.cfg.Disabled = EnvTruth("NO_TELEMETRY")
       /\ (EnvSet("OTEL_SERVICE_NAME") /\ FileSets("service_name"))
             => ret.cfg.ServiceName = env["OTEL_SERVICE_NAME"]
       /\ (EnvSet("TELEMETRY_KIND") /\ FileSets("kind"))
             => ret.cfg.Kind = env["TELEMETRY_KIND"]
       /\ (EnvSet("TELEMETRY_HRTIME") /\ FileSets("tracing.hrtime"))
             => ret.cfg.Tracing.HRTime = EnvTruth("TELEMETRY_HRTIME")
       /\ (EnvSet("HOST_METRICS_ENABLED") /\ FileSets("metrics.host_metrics"))
             => ret.cfg.Metrics.HostMetrics = EnvTruth("HOST_METRICS_ENABLED")
       /\ (EnvSet("TELEMETRY_TRACING_HRTIME") /\ FileSets("tracing.hrtime"))
             => ret.cfg.Tracing.HRTime = EnvTruth("TELEMETRY_TRACING_HRTIME")
       /\ (~EnvSet("OTEL_SERVICE_NAME") /\ FileSets("service_name"))
             => ret.cfg.ServiceName = file.doc["service_name"].v
       /\ (~EnvSet("NO_TELEMETRY") /\ FileSets("disabled"))
             => ret.cfg.Disabled = file.doc["disabled"].v

DefaultEnvKeys == {"NO_TELEMETRY", "OTEL_SERVICE_NAME", "TELEMETRY_KIND",
                   "TELEMETRY_HRTIME", "HOST_METRICS_ENABLED"}

\* C7 as claimed: the result of LoadFromJSON is the same under every
\* environment.
C7_EnvIndependent ==
    call.op = "LoadFromJSON" =>
       \A e2 \in Envs : LoadFromJSON(e2, call.jsonStr) = ret

\* C7: the result of LoadFromJSON depends on the environment only through
\* what os.Getenv returns for the five variables NewDefaultConfig reads:
\* changing the environment in one variable without changing what os.Getenv
\* returns for these five leaves the Configuration or error the same, so
\* two environments that agree on them give the same result whatever the
\* TELEMETRY_-prefixed overrides are.
C7_DependsOnDefaultVariablesOnly ==
    call.op = "LoadFromJSON" =>
       \A e2 \in Neighbours(env) :
          (\A k \in DefaultEnvKeys : Getenv(e2, k) = Getenv(env, k))
             => LoadFromJSON(e2, call.jsonStr) = ret

C7_Witness ==
    /\ call.op = "LoadFromJSON"
    /\ env["TELEMETRY_TRACING_HRTIME"] = "true"
    /\ env["NO_TELEMETRY"] = "yes"
    /\ call.jsonStr.kind = "doc"
    /\ Has(call.jsonStr.doc, "tracing.hrtime")
    /\ ret.err = NoErr
    /\ ret.cfg.Disabled
    /\ ~ret.cfg.Tracing.HRTime

JSONSets(key) == call.jsonStr.kind = "doc" /\ Has(call.jsonStr.doc, key)

\* C8 as claimed: LoadFromJSON applies the preset step: a text naming a
\* preset outside the catalog fails, and a text with a null tracing exporter
\* that names "telemetry-to-console" resolves to the preset's exporter.
C8_JSONAppliesPreset ==
    (call.op = "LoadFromJSON" /\ JSONSets("kind")) =>
       /\ call.jsonStr.doc["kind"].v \notin KindNames \cup {""}
             => (ret.err # NoErr /\ ret.cfg = Nil)
       /\ (/\ call.jsonStr.doc["kind"].v = "telemetry-to-console"
           /\ IsNull(call.jsonStr.doc, "tracing.exporter"))
             => /\ ret.err = NoErr
                /\ ret.cfg.Tracing.Exporter =
                      GetPredefinedKinds["telemetry-to-console"].Tracing.Exporter

\* C9: with no configuration file and an empty environment Load succeeds
\* and returns the defaults: not disabled, a service name and a preset name,
\* the three blocks present, tracing and metrics enabled, logging disabled,
\* a parent-based sampler with an always-on root, every exporter "console".
C9_LoadReturnsDefaults ==
    (call.op = "Load" /\ env = EmptyEnv /\ file = NoFile /\ configFile = "") =>
       /\ ret.err = NoErr
       /\ ~ret.cfg.Disabled
       /\ ret.cfg.ServiceName # ""
       /\ ret.cfg.Kind # ""
       /\ \A sig \in Signals : ret.cfg[sig] # Nil
       /\ ret.cfg.Tracing.Enabled
       /\ ret.cfg.Metrics.Enabled
       /\ ~ret.cfg.Logging.Enabled
       /\ ret.cfg.Tracing.Sampler # Nil
       /\ ret.cfg.Tracing.Sampler.Kind = "ParentBasedSampler"
       /\ ret.cfg.Tracing.Sampler.Root = "AlwaysOnSampler"
       /\ \A sig \in Signals :
             ret.cfg[sig].Exporter # Nil /\ ret.cfg[sig].Exporter.Module = "console"

C9_Witness ==
    /\ call.op = "Load"
    /\ env = EmptyEnv
    /\ file = NoFile
    /\ configFile = ""
    /\ ret.err = NoErr
    /\ ret.cfg.Kind = "telemetry-to-console"

\* C10 as claimed: getEnvBool returns the default for an unset variable,
\* false for a variable set to the empty string, "0" or "false" in any
\* letter case, and true for every other value.
C10_GetEnvBool ==
    call.op = "getEnvBool" =>
       ret.val = IF env[call.key] = Unset THEN call.defaultValue
                 ELSE env[call.key] \notin {"", "0", "false", "False", "FALSE"}

(***************************************************************************)
(* Sampler factory (Telemetry.createSampler).  A ratio is a float64 in the *)
(* code; the model counts it in hundredths, so RatioOne stands for 1.0.    *)
(* A sampling policy of the SDK is a record naming its constructor and     *)
(* the arguments handed to it.                                             *)
(***************************************************************************)
RatioOne == 100

AlwaysSample == [policy |-> "AlwaysSample"]

NeverSample == [policy |-> "NeverSample"]

TraceIDRatioBased(fraction) == [policy |-> "TraceIDRatioBased", fraction |-> fraction]

ParentBased(root) == [policy |-> "ParentBased", root |-> root]

effectiveRatio_Strict(ratio) == IF ratio < 0 THEN RatioOne ELSE ratio

effectiveRatio_Clamped(ratio) == IF ratio <= 0 \/ ratio > RatioOne THEN RatioOne ELSE ratio

\* ratio := samplerConfig.Ratio; if ratio <= 0 { ratio = 1.0 }
effectiveRatio(ratio) == IF ratio <= 0 THEN RatioOne ELSE ratio

\* the inner switch on samplerConfig.Root
rootSampler(root) ==
    CASE root = "AlwaysOnSampler" -> AlwaysSample
      [] root = "AlwaysOffSampler" -> NeverSample
      [] OTHER -> AlwaysSample

createSampler_FailClosed(samplerConfig) ==
    IF samplerConfig = Nil THEN AlwaysSample
    ELSE CASE samplerConfig.Kind = "AlwaysOnSampler" -> AlwaysSample
           [] samplerConfig.Kind = "AlwaysOffSampler" -> NeverSample
           [] samplerConfig.Kind = "TraceIdRatioBasedSampler" ->
                 TraceIDRatioBased(effectiveRatio(samplerConfig.Ratio))
           [] samplerConfig.Kind = "ParentBasedSampler" ->
                 ParentBased(rootSampler(samplerConfig.Root))
           [] OTHER -> NeverSample

createSampler(samplerConfig) ==
    IF samplerConfig = Nil THEN AlwaysSample
    ELSE CASE samplerConfig.Kind = "AlwaysOnSampler" -> AlwaysSample
           [] samplerConfig.Kind = "AlwaysOffSampler" -> NeverSample
           [] samplerConfig.Kind = "TraceIdRatioBasedSampler" ->
                 TraceIDRatioBased(effectiveRatio(samplerConfig.Ratio))
           [] samplerConfig.Kind = "ParentBasedSampler" ->
                 ParentBased(rootSampler(samplerConfig.Root))
           [] OTHER -> AlwaysSample

\* bounded inputs: ratios from -MaxRatioSteps/4 to MaxRatioSteps/4 in steps
\* of 0.25, the four kinds the code names, the empty kind and an unknown one
MaxRatioSteps == 6

RatioVals == {25 * k : k \in (0 - MaxRatioSteps)..MaxRatioSteps}

SamplerKinds == {"AlwaysOnSampler", "AlwaysOffSampler", "TraceIdRatioBasedSampler",
                 "ParentBasedSampler", "", "bogus"}

SamplerSpecs ==
    {Nil} \cup {SamplerConfig(k, r, q, <<>>) :
                   k \in SamplerKinds, r \in SamplerKinds, q \in RatioVals}

CreateSamplerCall ==
    /\ call = NoCall
    /\ \E s \in SamplerSpecs :
          /\ call' = [op |-> "createSampler", sampler |-> s]
          /\ ret' = [sampler |-> createSampler(s)]
    /\ UNCHANGED <<env, file, configFile, processVars>>

(***************************************************************************)
(* SpecSampler: the sampler factory on every sampler configuration.        *)
(***************************************************************************)
NextSampler == CreateSamplerCall \/ Return

SpecSampler == Init /\ [][NextSampler]_vars

\* the sampler configuration of the pending createSampler call
SamplerIs(kind) ==
    /\ call.op = "createSampler"
    /\ call.sampler # Nil
    /\ call.sampler.Kind = kind

\* C11: the sampler factory never fails and never returns an absent policy:
\* an absent sampler configuration and the kind "AlwaysOnSampler" give
\* always-sample, "AlwaysOffSampler" gives never-sample, and every other kind
\* that is neither ratio-based nor parent-based (the empty kind included)
\* gives always-sample.
C11_SamplerFailOpen ==
    call.op = "createSampler" =>
       /\ ret.sampler # Nil
       /\ ret.sampler.policy \in {"AlwaysSample", "NeverSample",
                                  "TraceIDRatioBased", "ParentBased"}
       /\ call.sampler = Nil => ret.sampler = AlwaysSample
       /\ SamplerIs("AlwaysOnSampler") => ret.sampler = AlwaysSample
       /\ SamplerIs("AlwaysOffSampler") => ret.sampler = NeverSample
       /\ (/\ call.sampler # Nil
           /\ call.sampler.Kind \notin {"AlwaysOnSampler", "AlwaysOffSampler",
                                        "TraceIdRatioBasedSampler", "ParentBasedSampler"})
             => ret.sampler = AlwaysSample

C11_Witness ==
    /\ SamplerIs("")
    /\ call.sampler.Root = "AlwaysOffSampler"
    /\ ret.sampler = AlwaysSample

\* C12: a ratio-based sampler configuration whose ratio is <= 0 (the unset
\* ratio 0 included) is handed to the policy as ratio 1.0, and a valid
\* fraction such as 0.25 is handed over unchanged.
C12_NonPositiveRatioIsOne ==
    SamplerIs("TraceIdRatioBasedSampler") =>
       /\ call.sampler.Ratio <= 0 => ret.sampler = TraceIDRatioBased(RatioOne)
       /\ (0 < call.sampler.Ratio /\ call.sampler.Ratio <= RatioOne)
             => ret.sampler = TraceIDRatioBased(call.sampler.Ratio)

C12_Witness ==
    /\ SamplerIs("TraceIdRatioBasedSampler")
    /\ call.sampler.Ratio = 0
    /\ ret.sampler = TraceIDRatioBased(RatioOne)

\* C13 as claimed: for every ratio-based sampler configuration the ratio
\* handed to the policy lies in (0, 1]: it is the configured ratio when that
\* lies in (0, 1], and 1.0 for every other value, those above 1 included.
C13_EffectiveRatioInUnitInterval ==
    SamplerIs("TraceIdRatioBasedSampler") =>
       /\ ret.sampler.policy = "TraceIDRatioBased"
       /\ 0 < ret.sampler.fraction /\ ret.sampler.fraction <= RatioOne
       /\ ret.sampler.fraction =
             IF 0 < call.sampler.Ratio /\ call.sampler.Ratio <= RatioOne
             THEN call.sampler.Ratio ELSE RatioOne

\* C13 as the code behaves: the ratio handed to the policy is positive; it
\* is 1.0 for a configured ratio <= 0 and the configured ratio itself for
\* every ratio > 0, so a ratio above 1 is handed over unchanged.
C13_OnlyNonPositiveRatioNormalised ==
    SamplerIs("TraceIdRatioBasedSampler") =>
       /\ ret.sampler.policy = "TraceIDRatioBased"
       /\ ret.sampler.fraction > 0
       /\ call.sampler.Ratio > RatioOne => ret.sampler.fraction = call.sampler.Ratio
       /\ ret.sampler.fraction # call.sampler.Ratio
             => (call.sampler.Ratio <= 0 /\ ret.sampler.fraction = RatioOne)

C13_Witness ==
    /\ SamplerIs("TraceIdRatioBasedSampler")
    /\ call.sampler.Ratio = RatioOne + 50
    /\ ret.sampler = TraceIDRatioBased(RatioOne + 50)

\* the kind mapping of the factory applied to a kind and a ratio
KindMapping(kind, ratio) ==
    CASE kind = "AlwaysOnSampler" -> AlwaysSample
      [] kind = "AlwaysOffSampler" -> NeverSample
      [] kind = "TraceIdRatioBasedSampler" -> TraceIDRatioBased(effectiveRatio(ratio))
      [] OTHER -> AlwaysSample

\* C14 as claimed: a parent-based sampler configuration gives a parent-based
\* policy whose root policy is the kind mapping applied to the configured
\* root: always-on gives always-sample, always-off never-sample, ratio-based
\* ratio sampling with the configured ratio, an unknown or unset root
\* always-sample.
C14_ParentBasedRootByKindMapping ==
    SamplerIs("ParentBasedSampler") =>
       ret.sampler = ParentBased(KindMapping(call.sampler.Root, call.sampler.Ratio))

(***************************************************************************)
(* Console span exporter (defaultSpanFormatter.Format).  A span is a       *)
(* record of what the formatter reads from a trace.ReadOnlySpan; a trace   *)
(* id is the pair of its first 8 hexadecimal characters and the rest.  The *)
(* rendered text is the sequence of its lines, a line being a record of    *)
(* the values printed on it (the colour codes are left out).               *)
(***************************************************************************)
Span(traceID, name, startTime, endTime, attributes) ==
    [TraceID |-> traceID, Name |-> name, StartTime |-> startTime,
     EndTime |-> endTime, Attributes |-> attributes]

KeyValue(key, value) == [Key |-> key, Value |-> value]

\* traceID[:8]
Prefix8(traceID) == traceID[1]

HeaderLine(traceID) == [line |-> "trace", trace |-> Prefix8(traceID)]

SpanLine(span, depth) ==
    [line |-> "span", indent |-> 2 * depth,
     start |-> span.StartTime % 10000, end |-> span.EndTime % 10000,
     duration |-> span.EndTime - span.StartTime, name |-> span.Name]

AttributeLine(attr, depth) ==
    [line |-> "attribute", indent |-> 2 * depth, key |-> attr.Key, value |-> attr.Value]

BlankLine == [line |-> "blank"]

importantKeys ==
    {"http.method", "http.url", "http.status_code", "db.statement", "db.system", "error"}

isImportantAttribute(key) == key \in importantKeys

After_OrEqual(t, u) == t >= u

\* time.Time.After
After(t, u) == t > u

Swap(s, j) == [s EXCEPT ![j] = s[j + 1], ![j + 1] = s[j]]

RECURSIVE bubbleInner(_, _, _)
\* the inner loop of the bubble sort from index j up to limit
bubbleInner(sorted, j, limit) ==
    IF j > limit THEN sorted
    ELSE bubbleInner(IF After(sorted[j].StartTime, sorted[j + 1].StartTime)
                     THEN Swap(sorted, j) ELSE sorted,
                     j + 1, limit)

RECURSIVE bubbleOuter(_, _)
\* the outer loop of the bubble sort from pass i (counted from 0)
bubbleOuter(sorted, i) ==
    IF i >= Len(sorted) - 1 THEN sorted
    ELSE bubbleOuter(bubbleInner(sorted, 1, Len(sorted) - i - 1), i + 1)

\* sorts a copy of spans; the argument keeps its order
sortSpansByStartTime(spans) == bubbleOuter(spans, 0)

RECURSIVE formatSpanHierarchy(_, _)
\* the lines of the spans, each followed by its important attributes
formatSpanHierarchy(spans, depth) ==
    IF spans = <<>> THEN <<>>
    ELSE LET span == Head(spans)
             attrs == SelectSeq(span.Attributes, LAMBDA a : isImportantAttribute(a.Key))
         IN <<SpanLine(span, depth)>>
            \o [i \in 1..Len(attrs) |-> AttributeLine(attrs[i], depth)]
            \o formatSpanHierarchy(Tail(spans), depth)

\* traceGroups: the spans of each trace id, in the order of the batch
traceGroups(spans) ==
    [t \in {spans[i].TraceID : i \in DOMAIN spans} |->
        SelectSeq(spans, LAMBDA s : s.TraceID = t)]

\* the orders in which a range over a Go map may visit its keys
MapOrders(keys) ==
    {o \in [1..Cardinality(keys) -> keys] :
        \A i, j \in 1..Cardinality(keys) : o[i] = o[j] => i = j}

formatTrace(traceID, traceSpans) ==
    <<HeaderLine(traceID)>>
    \o formatSpanHierarchy(sortSpansByStartTime(traceSpans), 0)
    \o <<BlankLine>>

RECURSIVE formatGroups(_, _)
formatGroups(groups, order) ==
    IF order = <<>> THEN <<>>
    ELSE formatTrace(Head(order), groups[Head(order)])
         \o formatGroups(groups, Tail(order))

Format_SortsInput(spans, order) ==
    [output |-> IF Len(spans) = 0 THEN <<>>
                ELSE formatGroups(traceGroups(spans), order),
     spans |-> sortSpansByStartTime(spans)]

\* Format on the batch spans when the range over traceGroups visits the
\* trace ids in the given order: the text returned and the caller's batch
\* after the call
Format(spans, order) ==
    [output |-> IF Len(spans) = 0 THEN <<>>
                ELSE formatGroups(traceGroups(spans), order),
     spans |-> spans]

\* bounded inputs: three trace ids, two of them with the same first 8
\* characters; start times 1..MaxStartTime; batches of up to MaxSpans spans
MaxSpans == 3

MaxStartTime == 2

TraceIDs == {<<"aaaaaaaa", "1">>, <<"aaaaaaaa", "2">>, <<"bbbbbbbb", "1">>}

SpanAttributes(name) ==
    IF name = "GET /" THEN <<KeyValue("http.method", "GET"), KeyValue("net.peer", "x")>>
    ELSE <<>>

SpanSet ==
    {Span(t, n, st, st + 1, SpanAttributes(n)) :
        t \in TraceIDs, n \in {"GET /", "query"}, st \in 1..MaxStartTime}

SpanBatches == UNION {[1..n -> SpanSet] : n \in 0..MaxSpans}

FormatSpansCall ==
    /\ call = NoCall
    /\ \E b \in SpanBatches :
          \E order \in MapOrders(DOMAIN traceGroups(b)) :
             /\ call' = [op |-> "Format", spans |-> b]
             /\ ret' = Format(b, order)
    /\ UNCHANGED <<env, file, configFile, processVars>>

(***************************************************************************)
(* SpecSpans: the span formatter on every batch.                           *)
(***************************************************************************)
NextSpans == FormatSpansCall \/ Return

SpecSpans == Init /\ [][NextSpans]_vars

RECURSIVE FirstEncounter(_)
\* the distinct trace ids of a batch in the order of their first span
FirstEncounter(spans) ==
    IF spans = <<>> THEN <<>>
    ELSE LET rest == FirstEncounter(SelectSeq(Tail(spans),
                                     LAMBDA s : s.TraceID # Head(spans).TraceID))
         IN <<Head(spans).TraceID>> \o rest

RECURSIVE Sections(_)
\* the rendered text cut after each blank line
Sections(output) ==
    IF output = <<>> THEN <<>>
    ELSE LET n == CHOOSE i \in 1..Len(output) :
                     /\ output[i] = BlankLine
                     /\ \A j \in 1..(i - 1) : output[j] # BlankLine
         IN <<SubSeq(output, 1, n - 1)>> \o Sections(SubSeq(output, n + 1, Len(output)))

SpanLinesOf(section) == SelectSeq(section, LAMBDA l : l.line = "span")

Count(seq, x) == Cardinality({i \in DOMAIN seq : seq[i] = x})

\* C15 as claimed: the rendered text has exactly one header per distinct
\* trace id of the batch, in the order in which the trace ids are first
\* encountered in the batch, and under each header every span of that trace
\* exactly once and no other span.
C15_OneHeaderPerTraceInFirstEncounterOrder ==
    call.op = "Format" =>
       LET secs == Sections(ret.output)
           order == FirstEncounter(call.spans)
       IN /\ Count(ret.output, BlankLine) = Len(order)
          /\ Len(SelectSeq(ret.output, LAMBDA l : l.line = "trace")) = Len(order)
          /\ \A i \in 1..Len(order) :
                /\ Head(secs[i]) = HeaderLine(order[i])
                /\ \A s \in SpanSet :
                      Count(SpanLinesOf(secs[i]), SpanLine(s, 0)) =
                         Cardinality({k \in DOMAIN call.spans :
                                         /\ call.spans[k].TraceID = order[i]
                                         /\ SpanLine(call.spans[k], 0) = SpanLine(s, 0)})

\* C16: under each trace header the spans of that trace are rendered in
\* ascending order of start time, spans with equal start times in the order
\* they have in the batch.
C16_StableAscendingStartTime ==
    call.op = "Format" =>
       \A t \in DOMAIN traceGroups(call.spans) :
          LET group == traceGroups(call.spans)[t]
          IN \E sec \in {Sections(ret.output)[i] : i \in 1..Len(Sections(ret.output))} :
                /\ Head(sec) = HeaderLine(t)
                /\ Len(SpanLinesOf(sec)) = Len(group)
                /\ \E p \in MapOrders(DOMAIN group) :
                      /\ \A i \in DOMAIN group : SpanLinesOf(sec)[i] = SpanLine(group[p[i]], 0)
                      /\ \A i, j \in DOMAIN group :
                            i < j => \/ group[p[i]].StartTime < group[p[j]].StartTime
                                     \/ /\ group[p[i]].StartTime = group[p[j]].StartTime
                                        /\ p[i] < p[j]

C16_Witness ==
    /\ call.op = "Format"
    /\ Len(call.spans) = 3
    /\ \A i \in 1..3 : call.spans[i].TraceID = <<"aaaaaaaa", "1">>
    /\ call.spans[1].StartTime = 2 /\ call.spans[1].Name = "query"
    /\ call.spans[2].StartTime = 1 /\ call.spans[2].Name = "GET /"
    /\ call.spans[3].StartTime = 1 /\ call.spans[3].Name = "query"
    /\ SpanLinesOf(ret.output) =
          <<SpanLine(call.spans[2], 0), SpanLine(call.spans[3], 0), SpanLine(call.spans[1], 0)>>

Metrics(name, data) == [Name |-> name, Data |-> data]

\* metricdata.Gauge[N], Sum[N], Histogram[N]; type "" is any other Data
MetricData(type, dataPoints) == [type |-> type, DataPoints |-> dataPoints]

DataPoint(value, attributes) == [Value |-> value, Attributes |-> attributes]

HistogramDataPoint(count) == [Count |-> count]

\* strings.HasPrefix
HasPrefix(s, prefix) ==
    /\ Len(prefix) <= Len(s)
    /\ SubSeq(s, 1, Len(prefix)) = prefix

Wrote(lines) == [panic |-> FALSE, text |-> lines]

\* runtime error: index out of range; text is then not returned
Panicked == [panic |-> TRUE, text |-> <<>>]

\* b runs after a unless a panicked
Then(a, b) ==
    IF a.panic THEN Panicked
    ELSE IF b.panic THEN Panicked
    ELSE Wrote(a.text \o b.text)

\* fmt.Sprintf("%d", v)
FmtD(v) == ToString(v)

\* fmt.Sprintf("%.3f", v) of a value counted in thousandths (v >= 0)
Fmt3F(v) ==
    ToString(v \div 1000) \o "."
    \o ToString((v % 1000) \div 100) \o ToString((v % 100) \div 10) \o ToString(v % 10)

SectionLine(title) == [line |-> "section", title |-> title]

MetricsBlankLine == [line |-> "blank", of |-> "metrics"]

\* fmt.Sprintf(format, v) or fmt.Sprintf(format, v, v) for the formats used
Sprintf(format, v) ==
    CASE format = "%d" -> FmtD(v)
      [] format = "%d/%d" -> FmtD(v) \o "/" \o FmtD(v)

RECURSIVE lastValue(_, _, _)
\* what a variable holds after the loop over the data points that assigns
\* it the rendering of each point in turn
lastValue(dataPoints, initial, format) ==
    IF dataPoints = <<>> THEN initial
    ELSE lastValue(Tail(dataPoints), Sprintf(format, Head(dataPoints).Value), format)

stateOf(dp) ==
    LET states == SelectSeq(dp.Attributes, LAMBDA a : a.Key = "state")
    IN IF states = <<>> THEN "" ELSE states[Len(states)].Value

RECURSIVE cpuTime(_, _, _)
\* userTime or systemTime after the loop over the data points
cpuTime(dataPoints, state, initial) ==
    IF dataPoints = <<>> THEN initial
    ELSE cpuTime(Tail(dataPoints), state,
                 IF stateOf(Head(dataPoints)) = state THEN Head(dataPoints).Value
                 ELSE initial)

formatCPUTime(m) ==
    IF m.Data.type = "Sum[float64]"
    THEN Wrote(<<[line |-> "Process Cpu time in seconds",
                  user |-> Fmt3F(cpuTime(m.Data.DataPoints, "user", 0)),
                  system |-> Fmt3F(cpuTime(m.Data.DataPoints, "system", 0))]>>)
    ELSE Wrote(<<>>)

formatMemoryUsage(m) ==
    IF m.Data.type = "Gauge[int64]"
    THEN Wrote([i \in 1..Len(m.Data.DataPoints) |->
                   [line |-> "Process Memory usage in bytes",
                    value |-> FmtD(m.Data.DataPoints[i].Value)]])
    ELSE Wrote(<<>>)

formatGCCount(m) ==
    IF m.Data.type = "Sum[int64]"
    THEN Wrote([i \in 1..Len(m.Data.DataPoints) |->
                   [line |-> "Runtime GC count",
                    value |-> FmtD(m.Data.DataPoints[i].Value)]])
    ELSE Wrote(<<>>)

GenericLine(m, values) == [line |-> "metric", name |-> m.Name, values |-> values]

\* data.DataPoints[0] of a histogram is read without a length test
formatGenericMetric(m) ==
    CASE m.Data.type \in {"Gauge[int64]", "Sum[int64]"} ->
            Wrote(<<GenericLine(m, [i \in 1..Len(m.Data.DataPoints) |->
                                       FmtD(m.Data.DataPoints[i].Value)])>>)
      [] m.Data.type \in {"Gauge[float64]", "Sum[float64]"} ->
            Wrote(<<GenericLine(m, [i \in 1..Len(m.Data.DataPoints) |->
                                       Fmt3F(m.Data.DataPoints[i].Value)])>>)
      [] m.Data.type \in {"Histogram[int64]", "Histogram[float64]"} ->
            IF Len(m.Data.DataPoints) = 0 THEN Panicked
            ELSE Wrote(<<GenericLine(m, <<"count: " \o FmtD(m.Data.DataPoints[1].Count)>>)>>)
      [] OTHER -> Wrote(<<GenericLine(m, <<>>)>>)

RECURSIVE formatHostMetrics(_)
formatHostMetrics(metrics) ==
    IF metrics = <<>> THEN Wrote(<<>>)
    ELSE LET m == Head(metrics)
         IN Then(CASE m.Name = <<"process", ".", "cpu.time">> -> formatCPUTime(m)
                   [] m.Name = <<"process", ".", "memory.usage">> -> formatMemoryUsage(m)
                   [] m.Name = <<"runtime", ".", "go.gc.count">> -> formatGCCount(m)
                   [] OTHER -> formatGenericMetric(m),
                 formatHostMetrics(Tail(metrics)))

RECURSIVE dbPoolColumn(_, _, _, _)
\* size, available or pending after the loop over the metrics
dbPoolColumn(metrics, name, initial, format) ==
    IF metrics = <<>> THEN initial
    ELSE LET m == Head(metrics)
         IN dbPoolColumn(Tail(metrics), name,
                         IF m.Name = name /\ m.Data.type = "Gauge[int64]"
                         THEN lastValue(m.Data.DataPoints, initial, format)
                         ELSE initial,
                         format)

formatDBPoolMetrics(metrics) ==
    Wrote(<<[line |-> "columns", names |-> <<"size", "available", "pending">>],
            [line |-> "values",
             size |-> dbPoolColumn(metrics, <<"db", ".", "pool", ".size">>, "0/0", "%d/%d"),
             available |-> dbPoolColumn(metrics, <<"db", ".", "pool", ".available">>,
                                        "0/0", "%d/%d"),
             pending |-> dbPoolColumn(metrics, <<"db", ".", "pool", ".pending">>, "0", "%d")]>>)

RECURSIVE queueColumn(_, _, _)
\* values[key] after the loop over the metrics
queueColumn(metrics, name, initial) ==
    IF metrics = <<>> THEN initial
    ELSE LET m == Head(metrics)
         IN queueColumn(Tail(metrics), name,
                        IF m.Name = name /\ m.Data.type = "Gauge[int64]"
                        THEN lastValue(m.Data.DataPoints, initial, "%d")
                        ELSE initial)

formatQueueMetrics(metrics) ==
    Wrote(<<[line |-> "columns",
             names |-> <<"cold", "remaining", "min storage time", "med storage time",
                         "max storage time", "incoming", "outgoing">>],
            [line |-> "values",
             cold |-> queueColumn(metrics, <<"queue", ".cold">>, "0"),
             remaining |-> queueColumn(metrics, <<"queue", ".remaining">>, "0"),
             min |-> "0", med |-> "0", max |-> "0",
             incoming |-> queueColumn(metrics, <<"queue", ".incoming">>, "0"),
             outgoing |-> queueColumn(metrics, <<"queue", ".outgoing">>, "0")]>>)

RECURSIVE formatCustomMetrics(_)
formatCustomMetrics(metrics) ==
    IF metrics = <<>> THEN Wrote(<<>>)
    ELSE Then(formatGenericMetric(Head(metrics)), formatCustomMetrics(Tail(metrics)))

RECURSIVE allMetrics(_)
\* the metrics of all scopes in the order of the two nested loops
allMetrics(scopeMetrics) ==
    IF scopeMetrics = <<>> THEN <<>>
    ELSE Head(scopeMetrics).Metrics \o allMetrics(Tail(scopeMetrics))

\* the switch that appends a metric to one of the four slices
bucketOf(m) ==
    CASE HasPrefix(m.Name, <<"process", ".">>) \/ HasPrefix(m.Name, <<"runtime", ".">>) ->
            "hostMetrics"
      [] HasPrefix(m.Name, <<"db", ".", "pool">>) -> "dbPoolMetrics"
      [] HasPrefix(m.Name, <<"queue">>) -> "queueMetrics"
      [] OTHER -> "customMetrics"

Buckets == {"hostMetrics", "dbPoolMetrics", "queueMetrics", "customMetrics"}

classify(rm) ==
    [b \in Buckets |-> SelectSeq(allMetrics(rm.ScopeMetrics), LAMBDA m : bucketOf(m) = b)]

\* one `if len(bucket) > 0 { header; format; blank line }` block
section(bucket, title, formatted) ==
    IF Len(bucket) > 0
    THEN Then(Wrote(<<SectionLine(title)>>), Then(formatted, Wrote(<<MetricsBlankLine>>)))
    ELSE Wrote(<<>>)

MetricFormat(rm) ==
    IF rm = Nil THEN Wrote(<<>>)
    ELSE IF Len(rm.ScopeMetrics) = 0 THEN Wrote(<<>>)
    ELSE LET g == classify(rm)
         IN Then(section(g.hostMetrics, "host metrics", formatHostMetrics(g.hostMetrics)),
            Then(section(g.dbPoolMetrics, "db.pool", formatDBPoolMetrics(g.dbPoolMetrics)),
            Then(section(g.queueMetrics, "queue", formatQueueMetrics(g.queueMetrics)),
                 section(g.customMetrics, "custom metrics",
                         formatCustomMetrics(g.customMetrics)))))

\* bounded inputs: a catalogue of metrics of every bucket and data type, in
\* one scope of up to MaxMetrics metrics or in two scopes of one metric
MaxMetrics == 2

IntGauge(values) == MetricData("Gauge[int64]", [i \in DOMAIN values |-> DataPoint(values[i], <<>>)])

MetricSet ==
    {Metrics(<<"process", ".", "cpu.time">>,
             MetricData("Sum[float64]",
                        <<DataPoint(1500, <<KeyValue("state", "user")>>),
                          DataPoint(250, <<KeyValue("state", "system")>>)>>)),
     Metrics(<<"process", ".", "memory.usage">>, IntGauge(<<1024>>)),
     Metrics(<<"runtime", ".", "go.gc.count">>,
             MetricData("Sum[int64]", <<DataPoint(3, <<>>)>>)),
     Metrics(<<"process", ".", "uptime">>,
             MetricData("Gauge[float64]", <<DataPoint(2050, <<>>)>>)),
     Metrics(<<"runtime", ".", "pause">>, MetricData("Histogram[float64]", <<>>)),
     Metrics(<<"process", "es">>, IntGauge(<<2>>)),
     Metrics(<<"db", ".", "pool", ".size">>, IntGauge(<<5>>)),
     Metrics(<<"db", ".", "pool", ".size">>, IntGauge(<<5, 7>>)),
     Metrics(<<"db", ".", "pool", ".size">>, IntGauge(<<>>)),
     Metrics(<<"db", ".", "pool", ".size">>,
             MetricData("Gauge[float64]", <<DataPoint(5000, <<>>)>>)),
     Metrics(<<"db", ".", "pool", ".available">>, IntGauge(<<4>>)),
     Metrics(<<"db", ".", "pool", ".pending">>, IntGauge(<<1>>)),
     Metrics(<<"db", ".", "pool", "s.total">>, IntGauge(<<9>>)),
     Metrics(<<"db", ".", "queries">>, MetricData("Sum[int64]", <<DataPoint(8, <<>>)>>)),
     Metrics(<<"queue", ".cold">>, IntGauge(<<2>>)),
     Metrics(<<"queue", "d.jobs">>, MetricData("Sum[int64]", <<DataPoint(6, <<>>)>>)),
     Metrics(<<"http.requests">>, MetricData("Sum[int64]", <<DataPoint(10, <<>>)>>)),
     Metrics(<<"http.latency">>, MetricData("Histogram[int64]", <<HistogramDataPoint(2)>>)),
     Metrics(<<"http.latency">>, MetricData("Histogram[int64]", <<>>)),
     Metrics(<<"app.info">>, MetricData("", <<>>))}

ScopeMetrics(metrics) == [Metrics |-> metrics]

ResourceMetrics(scopeMetrics) == [ScopeMetrics |-> scopeMetrics]

ResourceMetricsSet ==
    {Nil, ResourceMetrics(<<>>)}
    \cup {ResourceMetrics(<<ScopeMetrics(ms)>>) :
             ms \in UNION {[1..n -> MetricSet] : n \in 0..MaxMetrics}}
    \cup {ResourceMetrics(<<ScopeMetrics(<<m1>>), ScopeMetrics(<<m2>>)>>) :
             m1 \in MetricSet, m2 \in MetricSet}

FormatMetricsCall ==
    /\ call = NoCall
    /\ \E rm \in ResourceMetricsSet :
          /\ call' = [op |-> "MetricFormat", rm |-> rm]
          /\ ret' = MetricFormat(rm)
    /\ UNCHANGED <<env, file, configFile, processVars>>

(***************************************************************************)
(* SpecMetrics: the metric formatter on every batch.                       *)
(***************************************************************************)
NextMetrics == FormatMetricsCall \/ Return

SpecMetrics == Init /\ [][NextMetrics]_vars

\* the metrics of the batch of the pending call, in order
BatchMetrics == IF call.rm = Nil THEN <<>> ELSE allMetrics(call.rm.ScopeMetrics)

\* the bucket the claimed prefix rules give a metric name
ClaimedBucket(name) ==
    IF HasPrefix(name, <<"process", ".">>) \/ HasPrefix(name, <<"runtime", ".">>)
    THEN "hostMetrics"
    ELSE IF HasPrefix(name, <<"db", ".", "pool">>) THEN "dbPoolMetrics"
    ELSE IF HasPrefix(name, <<"queue">>) THEN "queueMetrics"
    ELSE "customMetrics"

SectionOrder == <<"hostMetrics", "dbPoolMetrics", "queueMetrics", "customMetrics">>

SectionTitle ==
    [hostMetrics |-> "host metrics", dbPoolMetrics |-> "db.pool",
     queueMetrics |-> "queue", customMetrics |-> "custom metrics"]

\* C18 as claimed: every metric of the batch is in exactly one bucket, the
\* one of the first prefix rule its name matches, and the rendered text has
\* a section for a bucket exactly when the bucket is not empty, the sections
\* in the fixed order host, db-pool, queue, custom.
C18_OneBucketSectionsInFixedOrder ==
    call.op = "MetricFormat" =>
       LET nonEmpty == SelectSeq(SectionOrder,
                          LAMBDA b : \E i \in DOMAIN BatchMetrics :
                                        ClaimedBucket(BatchMetrics[i].Name) = b)
           sections == SelectSeq(ret.text, LAMBDA l : l.line = "section")
       IN /\ call.rm # Nil =>
                \A b \in Buckets :
                   classify(call.rm)[b] =
                      SelectSeq(BatchMetrics, LAMBDA m : ClaimedBucket(m.Name) = b)
          /\ ~ret.panic
          /\ sections = [i \in DOMAIN nonEmpty |-> SectionLine(SectionTitle[nonEmpty[i]])]

\* the metrics of the batch with the given name
Named(name) == SelectSeq(BatchMetrics, LAMBDA m : m.Name = name)

\* C19 as claimed: whenever the batch has at least one db-pool metric, the
\* rendered text has the db-pool section with its three columns: a column
\* whose metric is missing shows "0/0" (size, available) or "0" (pending),
\* and a column whose metric is one integer gauge of value v shows "v/v"
\* (size, available) or "v" (pending).
C19_DBPoolThreeColumns ==
    (/\ call.op = "MetricFormat"
     /\ \E i \in DOMAIN BatchMetrics : ClaimedBucket(BatchMetrics[i].Name) = "dbPoolMetrics")
    => /\ ~ret.panic
       /\ \E i \in 1..(Len(ret.text) - 2) :
             /\ ret.text[i] = SectionLine("db.pool")
             /\ ret.text[i + 1] = [line |-> "columns",
                                   names |-> <<"size", "available", "pending">>]
             /\ ret.text[i + 2].line = "values"
             /\ \A col \in {"size", "available", "pending"} :
                   LET name == <<"db", ".", "pool", "." \o col>>
                       ms == Named(name)
                   IN /\ ms = <<>> =>
                            ret.text[i + 2][col] = IF col = "pending" THEN "0" ELSE "0/0"
                      /\ (/\ Len(ms) = 1
                          /\ ms[1].Data.type = "Gauge[int64]"
                          /\ Len(ms[1].Data.DataPoints) = 1)
                         => LET v == ms[1].Data.DataPoints[1].Value
                            IN ret.text[i + 2][col] =
                                  IF col = "pending" THEN ToString(v)
                                  ELSE ToString(v) \o "/" \o ToString(v)

\* C20 as claimed: rendering a batch of metrics never panics, whatever the
\* batch: a histogram with no data points and a metric of an unexpected
\* data type are rendered too.
C20_MetricFormatNeverPanics ==
    call.op = "MetricFormat" => ~ret.panic

(***************************************************************************)
(* Console log exporter: the three formatters.  A string that is quoted    *)
(* or scanned character by character (a body, an attribute key or value)   *)
(* is a sequence of characters, the control character ESC (0x1b) and the   *)
(* line feed being the one-character strings "ESC" and "LF".  The text of  *)
(* the default and the compact formatter is the sequence of its lines; the *)
(* text of the JSON formatter is the sequence of its tokens, the white     *)
(* space between tokens left out: a punctuation mark, or the characters    *)
(* written between two double quotes.                                      *)
(***************************************************************************)
SeverityDebug == 5

SeverityInfo == 9

SeverityWarn == 13

SeverityError == 17

SeverityFatal == 21

formatSeverity_Equality(severity) ==
    CASE severity = SeverityFatal -> "FATAL"
      [] severity = SeverityError -> "ERROR"
      [] severity = SeverityWarn -> "WARN"
      [] severity = SeverityInfo -> "INFO"
      [] severity = SeverityDebug -> "DEBUG"
      [] OTHER -> "TRACE"

\* defaultLogFormatter.formatSeverity; the label without its icon, colour
\* and padding
formatSeverity(severity) ==
    CASE severity >= SeverityFatal -> "FATAL"
      [] severity >= SeverityError -> "ERROR"
      [] severity >= SeverityWarn -> "WARN"
      [] severity >= SeverityInfo -> "INFO"
      [] severity >= SeverityDebug -> "DEBUG"
      [] OTHER -> "TRACE"

\* CompactLogFormatter.formatSeverity
compactFormatSeverity(severity) ==
    CASE severity >= SeverityFatal -> "FTL"
      [] severity >= SeverityError -> "ERR"
      [] severity >= SeverityWarn -> "WRN"
      [] severity >= SeverityInfo -> "INF"
      [] severity >= SeverityDebug -> "DBG"
      [] OTHER -> "TRC"

\* log.Severity.String(): TRACE, TRACE2 .. FATAL4, UNDEFINED for 0
SeverityString(severity) ==
    IF severity = 0 THEN "UNDEFINED"
    ELSE IF severity < 0 \/ severity > 24 THEN "Severity(" \o ToString(severity) \o ")"
    ELSE LET level == <<"TRACE", "DEBUG", "INFO", "WARN", "ERROR", "FATAL">>[((severity - 1) \div 4) + 1]
             n == ((severity - 1) % 4) + 1
         IN IF n = 1 THEN level ELSE level \o ToString(n)

\* an sdklog.Record: TraceID and SpanID are "" when not valid
Record(timestamp, severity, body, traceID, spanID, attributes) ==
    [Timestamp |-> timestamp, Severity |-> severity, Body |-> body,
     TraceID |-> traceID, SpanID |-> spanID, Attributes |-> attributes]

IsValid(id) == id # ""

\* strconv.Quote of one character, without the enclosing quotes
quoteChar(c) ==
    CASE c = "\"" -> <<"\\", "\"">>
      [] c = "\\" -> <<"\\", "\\">>
      [] c = "LF" -> <<"\\", "n">>
      [] c = "ESC" -> <<"\\", "x", "1", "b">>
      [] OTHER -> <<c>>

RECURSIVE quote(_)
\* what %q writes between the double quotes
quote(s) == IF s = <<>> THEN <<>> ELSE quoteChar(Head(s)) \o quote(Tail(s))

Punct(p) == [t |-> p, chars |-> <<>>]

\* a double quote, the characters, a double quote
Quoted(chars) == [t |-> "string", chars |-> chars]

Member(key, chars) == <<Quoted(key), Punct(":"), Quoted(chars)>>

RECURSIVE jsonAttributes(_, _)
\* the WalkAttributes callback of the JSON formatter on each attribute
jsonAttributes(attributes, hasAttributes) ==
    IF attributes = <<>> THEN <<>>
    ELSE (IF ~hasAttributes
          THEN <<Punct(","), Quoted(<<"attributes">>), Punct(":"), Punct("{")>>
          ELSE <<Punct(",")>>)
         \o Member(quote(Head(attributes).Key), quote(Head(attributes).Value))
         \o jsonAttributes(Tail(attributes), TRUE)

jsonRecord(record) ==
    <<Punct("{")>>
    \o Member(<<"timestamp">>, <<"T" \o ToString(record.Timestamp)>>) \o <<Punct(",")>>
    \o Member(<<"severity">>, <<SeverityString(record.Severity)>>) \o <<Punct(",")>>
    \o Member(<<"body">>, quote(record.Body))
    \o (IF IsValid(record.TraceID)
        THEN <<Punct(",")>> \o Member(<<"traceId">>, <<record.TraceID>>) ELSE <<>>)
    \o (IF IsValid(record.SpanID)
        THEN <<Punct(",")>> \o Member(<<"spanId">>, <<record.SpanID>>) ELSE <<>>)
    \o jsonAttributes(record.Attributes, FALSE)
    \o (IF record.Attributes # <<>> THEN <<Punct("}")>> ELSE <<>>)
    \o <<Punct("}")>>

RECURSIVE jsonRecords(_, _)
jsonRecords(records, i) ==
    IF i > Len(records) THEN <<>>
    ELSE (IF i > 1 THEN <<Punct(",")>> ELSE <<>>)
         \o jsonRecord(records[i]) \o jsonRecords(records, i + 1)

\* JSONLogFormatter.Format
JSONLogFormat(records) == <<Punct("[")>> \o jsonRecords(records, 1) \o <<Punct("]")>>

RECURSIVE logAttributeLines(_, _)
\* the WalkAttributes callback of the default formatter on each attribute
logAttributeLines(attributes, hasAttributes) ==
    IF attributes = <<>> THEN <<>>
    ELSE (IF ~hasAttributes THEN <<[line |-> "Attributes:"]>> ELSE <<>>)
         \o <<[line |-> "attribute", key |-> Head(attributes).Key,
               value |-> Head(attributes).Value]>>
         \o logAttributeLines(Tail(attributes), TRUE)

formatLogRecord(record) ==
    <<[line |-> "record", timestamp |-> record.Timestamp,
       severity |-> formatSeverity(record.Severity), body |-> record.Body]>>
    \o (IF IsValid(record.TraceID)
        THEN <<[line |-> "Trace ID", id |-> record.TraceID]>> ELSE <<>>)
    \o (IF IsValid(record.SpanID)
        THEN <<[line |-> "Span ID", id |-> record.SpanID]>> ELSE <<>>)
    \o logAttributeLines(record.Attributes, FALSE)

RECURSIVE logRecords(_, _)
logRecords(records, i) ==
    IF i > Len(records) THEN <<>>
    ELSE (IF i > 1 THEN <<[line |-> ""]>> ELSE <<>>)
         \o formatLogRecord(records[i]) \o logRecords(records, i + 1)

\* defaultLogFormatter.Format: the banner, the records, an empty line
DefaultLogFormat(records) ==
    <<[line |-> ""], [line |-> "banner", title |-> "LOG RECORDS"], [line |-> ""]>>
    \o logRecords(records, 1) \o <<[line |-> ""]>>

\* CompactLogFormatter.Format: one line per record
CompactLogFormat(records) ==
    [i \in 1..Len(records) |->
        [line |-> "compact", timestamp |-> records[i].Timestamp,
         severity |-> compactFormatSeverity(records[i].Severity),
         body |-> records[i].Body,
         trace |-> IF IsValid(records[i].TraceID) THEN <<records[i].TraceID>> ELSE <<>>]]

LogFormatters == {"default", "compact", "json"}

\* LogFormatter.Format of the formatter an exporter holds
LogFormat(formatter, records) ==
    CASE formatter = "default" -> DefaultLogFormat(records)
      [] formatter = "compact" -> CompactLogFormat(records)
      [] formatter = "json" -> JSONLogFormat(records)

\* bounded inputs: severities -1..MaxSeverity; batches of up to MaxRecords
\* records with a plain body, a body with a quote and a backslash, and a
\* body with a control character
MaxSeverity == 25

MaxRecords == 2

Severities == (0 - 1)..MaxSeverity

LogBodies == {<<"m", "s", "g">>, <<"a", "\"", "b", "\\", "LF">>, <<"ESC", "[", "m">>}

LogAttributes ==
    {<<>>, <<KeyValue(<<"k">>, <<"v">>)>>,
     <<KeyValue(<<"k">>, <<"v">>), KeyValue(<<"q", "\"">>, <<"w">>)>>}

LogRecordSet ==
    {Record(1, IF b = <<"m", "s", "g">> THEN SeverityInfo + 2 ELSE SeverityError,
            b, ids[1], ids[2], a) :
        b \in LogBodies, a \in LogAttributes,
        ids \in {<<"", "">>, <<"4bf92f35", "">>, <<"4bf92f35", "00f067aa">>,
                 <<"", "00f067aa">>}}

LogBatches == UNION {[1..n -> LogRecordSet] : n \in 0..MaxRecords}

FormatSeverityCall ==
    /\ call = NoCall
    /\ \E s \in Severities :
          /\ call' = [op |-> "formatSeverity", severity |-> s]
          /\ ret' = [default |-> formatSeverity(s), compact |-> compactFormatSeverity(s)]
    /\ UNCHANGED <<env, file, configFile, processVars>>

LogFormatCall ==
    /\ call = NoCall
    /\ \E f \in LogFormatters, records \in LogBatches :
          /\ call' = [op |-> "LogFormat", formatter |-> f, records |-> records]
          /\ ret' = [output |-> LogFormat(f, records)]
    /\ UNCHANGED <<env, file, configFile, processVars>>

(***************************************************************************)
(* SpecLogs: the log formatters on every severity and batch.               *)
(***************************************************************************)
NextLogs == FormatSeverityCall \/ LogFormatCall \/ Return

SpecLogs == Init /\ [][NextLogs]_vars

\* the reference levels with their labels, highest first
ReferenceLevels ==
    <<[at |-> SeverityFatal, label |-> "FATAL", short |-> "FTL"],
      [at |-> SeverityError, label |-> "ERROR", short |-> "ERR"],
      [at |-> SeverityWarn, label |-> "WARN", short |-> "WRN"],
      [at |-> SeverityInfo, label |-> "INFO", short |-> "INF"],
      [at |-> SeverityDebug, label |-> "DEBUG", short |-> "DBG"]>>

\* C21: both formatSeverity functions label a severity s with the label of
\* the highest reference level (fatal, error, warn, info, debug) that is
\* <= s, and with the trace label when s is below debug; the label is
\* always one of the six, and a severity two above info is INFO / INF.
C21_SeverityByThreshold ==
    call.op = "formatSeverity" =>
       LET s == call.severity
           below == {i \in DOMAIN ReferenceLevels : ReferenceLevels[i].at <= s}
       IN /\ ret.default \in {"FATAL", "ERROR", "WARN", "INFO", "DEBUG", "TRACE"}
          /\ ret.compact \in {"FTL", "ERR", "WRN", "INF", "DBG", "TRC"}
          /\ below = {} => (ret.default = "TRACE" /\ ret.compact = "TRC")
          /\ below # {} =>
                LET top == CHOOSE i \in below :
                              \A j \in below : ReferenceLevels[j].at <= ReferenceLevels[i].at
                IN /\ ret.default = ReferenceLevels[top].label
                   /\ ret.compact = ReferenceLevels[top].short
          /\ s = SeverityInfo + 2 => (ret.default = "INFO" /\ ret.compact = "INF")

C21_Witness ==
    /\ call.op = "formatSeverity"
    /\ call.severity = SeverityInfo + 2
    /\ call.severity < SeverityWarn
    /\ ret.default = "INFO"
    /\ ret.compact = "INF"

RECURSIVE JSONStringOK(_)
\* the characters between two double quotes form a JSON string: no bare
\* double quote or control character, and a backslash only before one of
\* the characters JSON allows after it
JSONStringOK(chars) ==
    IF chars = <<>> THEN TRUE
    ELSE IF Head(chars) = "\\"
         THEN /\ Len(chars) >= 2
              /\ chars[2] \in {"\"", "\\", "/", "b", "f", "n", "r", "t"}
              /\ JSONStringOK(SubSeq(chars, 3, Len(chars)))
         ELSE /\ Head(chars) \notin {"\"", "ESC", "LF"}
              /\ JSONStringOK(Tail(chars))

IsPunct(toks, i, p) == i <= Len(toks) /\ toks[i].t = p

IsString(toks, i) ==
    i <= Len(toks) /\ toks[i].t = "string" /\ JSONStringOK(toks[i].chars)

RECURSIVE ParseObject(_, _)
RECURSIVE ParseMembers(_, _)
\* the index after the JSON value that starts at i, 0 when there is none
ParseValue(toks, i) ==
    IF IsString(toks, i) THEN i + 1
    ELSE IF IsPunct(toks, i, "{") THEN ParseObject(toks, i)
    ELSE 0

\* the index after the comma-separated members that start at i, 0 on error
ParseMembers(toks, i) ==
    IF ~(IsString(toks, i) /\ IsPunct(toks, i + 1, ":")) THEN 0
    ELSE LET j == ParseValue(toks, i + 2)
         IN IF j = 0 THEN 0
            ELSE IF IsPunct(toks, j, ",") THEN ParseMembers(toks, j + 1)
            ELSE j

\* the index after the JSON object that starts at i, 0 when there is none
ParseObject(toks, i) ==
    IF ~IsPunct(toks, i, "{") THEN 0
    ELSE IF IsPunct(toks, i + 1, "}") THEN i + 2
    ELSE LET j == ParseMembers(toks, i + 1)
         IN IF j = 0 \/ ~IsPunct(toks, j, "}") THEN 0 ELSE j + 1

RECURSIVE ParseElements(_, _, _)
\* the number of comma-separated objects from i up to the closing bracket
\* that ends the text, n counted so far; -1 on error
ParseElements(toks, i, n) ==
    LET j == ParseObject(toks, i)
    IN IF j = 0 THEN 0 - 1
       ELSE IF IsPunct(toks, j, ",") THEN ParseElements(toks, j + 1, n + 1)
       ELSE IF IsPunct(toks, j, "]") /\ j = Len(toks) THEN n + 1
       ELSE 0 - 1

\* the number of objects of the text when it is one well-formed JSON array
\* of objects, -1 when it is not
ParseArray(toks) ==
    IF ~IsPunct(toks, 1, "[") THEN 0 - 1
    ELSE IF IsPunct(toks, 2, "]") THEN (IF Len(toks) = 2 THEN 0 ELSE 0 - 1)
    ELSE ParseElements(toks, 2, 0)

\* C22 as claimed: the JSON formatter renders every batch of n >= 0 records
\* as one well-formed JSON array of exactly n objects, whichever of trace
\* id, span id and attributes the records have and whatever their bodies
\* hold.
C22_JSONWellFormedArray ==
    (call.op = "LogFormat" /\ call.formatter = "json") =>
       ParseArray(ret.output) = Len(call.records)

(***************************************************************************)
(* The console exporters.  The sink is the sequence of the Write calls     *)
(* made on the writer: who wrote, the text, and whether the writer         *)
(* reported success.  An exporter operation gives the Write calls it made, *)
(* the error it returned and whether it panicked.                          *)
(***************************************************************************)
WriteError == <<"write failed">>

Outcome(written, err, panic) == [written |-> written, err |-> err, panic |-> panic]

NoWrite == Outcome(<<>>, NoErr, FALSE)

writeOnce_Retry(x, e, text, ok) ==
    IF e.writer = Nil THEN Outcome(<<>>, NoErr, TRUE)
    ELSE IF ok THEN Outcome(<<[by |-> x, text |-> text, ok |-> TRUE]>>, NoErr, FALSE)
    ELSE Outcome(<<[by |-> x, text |-> text, ok |-> FALSE],
                   [by |-> x, text |-> text, ok |-> TRUE]>>, NoErr, FALSE)

\* _, err := e.writer.Write([]byte(output)); return err
writeOnce(x, e, text, ok) ==
    IF e.writer = Nil THEN Outcome(<<>>, NoErr, TRUE)
    ELSE Outcome(<<[by |-> x, text |-> text, ok |-> ok]>>,
                 IF ok THEN NoErr ELSE WriteError, FALSE)

\* SpanExporter.ExportSpans
ExportSpans(e, spans, order, ok) ==
    IF Len(spans) = 0 THEN NoWrite
    ELSE writeOnce("span", e, Format(spans, order).output, ok)

\* MetricExporter.Export
MetricExport(e, rm, ok) ==
    LET output == MetricFormat(rm)
    IN IF output.panic THEN Outcome(<<>>, NoErr, TRUE)
       ELSE IF output.text # <<>> THEN writeOnce("metric", e, output.text, ok)
       ELSE NoWrite

LogExport_NoGuard(e, records, ok) ==
    writeOnce("log", e, LogFormat(e.formatter, records), ok)

\* LogExporter.Export
LogExport(e, records, ok) ==
    IF Len(records) = 0 THEN NoWrite
    ELSE writeOnce("log", e, LogFormat(e.formatter, records), ok)

ExporterShutdown_ClosesWriter(e) == [exporter |-> [e EXCEPT !.writer = Nil], err |-> NoErr]

\* Shutdown of the three exporters: return nil
ExporterShutdown(e) == [exporter |-> e, err |-> NoErr]

\* ForceFlush of the metric and the log exporter: return nil
ExporterForceFlush(e) == [exporter |-> e, err |-> NoErr]

\* bounded inputs: at most MaxWrites Write calls on the sink; small batches
MaxWrites == 2

OneSpan == Span(<<"aaaaaaaa", "1">>, "query", 1, 2, <<>>)

ExportSpanBatches == {<<>>, <<OneSpan>>, <<OneSpan, OneSpan>>}

ExportMetricBatches ==
    {Nil, ResourceMetrics(<<>>), ResourceMetrics(<<ScopeMetrics(<<>>)>>),
     ResourceMetrics(<<ScopeMetrics(<<Metrics(<<"db", ".", "pool", ".size">>,
                                              IntGauge(<<5>>))>>)>>),
     ResourceMetrics(<<ScopeMetrics(<<Metrics(<<"http.latency">>,
                                              MetricData("Histogram[int64]", <<>>))>>)>>)}

OneRecord == Record(1, SeverityInfo, <<"m", "s", "g">>, "", "", <<>>)

ExportLogBatches == {<<>>, <<OneRecord>>}

\* the state after an operation on exporter x with the given outcome
Exported(op, x, batch, ok, r) ==
    /\ call' = [op |-> op, exporter |-> x, batch |-> batch, ok |-> ok]
    /\ ret' = [err |-> r.err, panic |-> r.panic, writes |-> Len(r.written)]
    /\ sink' = sink \o r.written
    /\ UNCHANGED <<env, file, configFile, exporters, closed, tasks, otel, providers,
                   telemetry>>

ExportSpansCall ==
    /\ call = NoCall
    /\ Len(sink) < MaxWrites
    /\ \E spans \in ExportSpanBatches, ok \in BOOLEAN :
          \E order \in MapOrders(DOMAIN traceGroups(spans)) :
             Exported("ExportSpans", "span", spans, ok,
                      ExportSpans(exporters.span, spans, order, ok))

MetricExportCall ==
    /\ call = NoCall
    /\ Len(sink) < MaxWrites
    /\ \E rm \in ExportMetricBatches, ok \in BOOLEAN :
          Exported("Export", "metric", rm, ok, MetricExport(exporters.metric, rm, ok))

LogExportCall ==
    /\ call = NoCall
    /\ Len(sink) < MaxWrites
    /\ \E records \in ExportLogBatches, ok \in BOOLEAN :
          Exported("Export", "log", records, ok, LogExport(exporters.log, records, ok))

ExporterShutdownCall ==
    /\ call = NoCall
    /\ \E x \in ExporterNames :
          LET r == ExporterShutdown(exporters[x])
          IN /\ call' = [op |-> "Shutdown", exporter |-> x]
             /\ ret' = [err |-> r.err, panic |-> FALSE, writes |-> 0]
             /\ exporters' = [exporters EXCEPT ![x] = r.exporter]
             /\ closed' = closed \cup {x}
    /\ UNCHANGED <<env, file, configFile, sink, tasks, otel, providers, telemetry>>

ExporterForceFlushCall ==
    /\ call = NoCall
    /\ \E x \in {"metric", "log"} :
          LET r == ExporterForceFlush(exporters[x])
          IN /\ call' = [op |-> "ForceFlush", exporter |-> x]
             /\ ret' = [err |-> r.err, panic |-> FALSE, writes |-> 0]
             /\ exporters' = [exporters EXCEPT ![x] = r.exporter]
    /\ UNCHANGED <<env, file, configFile, sink, closed, tasks, otel, providers, telemetry>>

(***************************************************************************)
(* SpecExport: one caller using the three exporters, the writer failing    *)
(* or not on each Write.                                                   *)
(***************************************************************************)
NextExport ==
    \/ ExportSpansCall
    \/ MetricExportCall
    \/ LogExportCall
    \/ ExporterShutdownCall
    \/ ExporterForceFlushCall
    \/ Return

SpecExport == Init /\ [][NextExport]_vars

ExportOps == {"ExportSpans", "Export"}

\* what the export of the pending call gives on a newly built exporter
OnNewExporter(c) ==
    CASE c.exporter = "span" ->
            ExportSpans(NewExporter("span"), c.batch,
                        CHOOSE o \in MapOrders(DOMAIN traceGroups(c.batch)) : TRUE, c.ok)
      [] c.exporter = "metric" -> MetricExport(NewExporter("metric"), c.batch, c.ok)
      [] c.exporter = "log" -> LogExport(NewExporter("log"), c.batch, c.ok)

\* C23: a Shutdown or ForceFlush of a console exporter returns success,
\* writes nothing to the sink and leaves every exporter as it was, whenever
\* and however often it is called; and an Export, also one after Shutdown,
\* leaves the exporters as they were and writes and returns what it does on
\* a newly built exporter.
C23_ShutdownAndFlushAreNoOps ==
    [][(call = NoCall /\ call' # NoCall) =>
          /\ call'.op \in {"Shutdown", "ForceFlush"} =>
                /\ ret'.err = NoErr /\ ~ret'.panic
                /\ sink' = sink
                /\ exporters' = exporters
          /\ call'.op \in ExportOps =>
                /\ exporters' = exporters
                /\ sink' = sink \o OnNewExporter(call').written
                /\ ret'.err = OnNewExporter(call').err
                /\ ret'.panic = OnNewExporter(call').panic]_vars

C23_Witness ==
    /\ call.op \in ExportOps
    /\ call.exporter = "log"
    /\ closed = ExporterNames
    /\ ret.err = NoErr
    /\ ret.writes = 1
    /\ Len(sink) = 2
    /\ sink[1].text = sink[2].text

\* C24: every call of ExportSpans or Export makes at most one Write on the
\* sink; when that Write fails the call returns its error, when it succeeds
\* the call returns success; and after a failed call the exporter is as it
\* was built, ready for the next batch.
C24_OneWriteNoRetry ==
    call.op \in ExportOps =>
       /\ ret.writes <= 1
       /\ ret.writes <= Len(sink)
       /\ ret.writes = 1 =>
             /\ sink[Len(sink)].by = call.exporter
             /\ sink[Len(sink)].ok = call.ok
             /\ ret.err = IF call.ok THEN NoErr ELSE WriteError
       /\ exporters[call.exporter] = NewExporter(call.exporter)

C24_Witness ==
    /\ call.op \in ExportOps
    /\ Len(sink) = 2
    /\ sink[1].by = call.exporter /\ ~sink[1].ok
    /\ sink[2].by = call.exporter /\ sink[2].ok
    /\ ret.writes = 1
    /\ ret.err = NoErr

\* C26: an ExportSpans or a log Export with zero records returns success
\* and makes no Write on the sink, and so does a metric Export whose batch
\* is nil or has no scope metrics.
C26_EmptyBatchWritesNothing ==
    (/\ call.op \in ExportOps
     /\ \/ call.exporter \in {"span", "log"} /\ Len(call.batch) = 0
        \/ call.exporter = "metric" /\ call.batch = Nil
        \/ call.exporter = "metric" /\ call.batch # Nil /\ Len(call.batch.ScopeMetrics) = 0)
    => /\ ret.err = NoErr
       /\ ~ret.panic
       /\ ret.writes = 0

C26_Witness ==
    /\ call.op = "Export"
    /\ call.exporter = "log"
    /\ call.batch = <<>>
    /\ ~call.ok
    /\ ret.err = NoErr
    /\ ret.writes = 0
    /\ Len(sink) = 1

(***************************************************************************)
(* SpecShared: the three exporters built on one writer (WithWriter,        *)
(* WithMetricWriter, WithLogWriter), each exporting one batch from its own *)
(* goroutine.  Export formats the batch and then calls Write; no exporter  *)
(* holds a lock.  A Write on os.Stdout is serialised by the file, so the   *)
(* text arrives in one step.  A Write on a writer without a lock of its    *)
(* own (a bytes.Buffer) races with the other Writes: its copy into the     *)
(* buffer is taken line by line, anything may come in between.             *)
(***************************************************************************)
Buffer == [buf |-> TRUE]

SharedWriters == {Stdout, Buffer}

SharedBatches(x) ==
    CASE x = "span" -> ExportSpanBatches
      [] x = "metric" -> {rm \in ExportMetricBatches : ~MetricFormat(rm).panic}
      [] x = "log" -> ExportLogBatches

\* the Write calls of an Export of the batch that succeeds
writesOf(x, e, batch) ==
    CASE x = "span" ->
            ExportSpans(e, batch, CHOOSE o \in MapOrders(DOMAIN traceGroups(batch)) : TRUE,
                        TRUE).written
      [] x = "metric" -> MetricExport(e, batch, TRUE).written
      [] x = "log" -> LogExport(e, batch, TRUE).written

\* output := e.formatter.Format(batch), up to the call of Write
FormatStep ==
    /\ call = NoCall
    /\ \E x \in ExporterNames :
          /\ tasks[x].pc = "idle"
          /\ \E batch \in SharedBatches(x) :
                LET written == writesOf(x, exporters[x], batch)
                IN tasks' = [tasks EXCEPT
                       ![x] = IF written = <<>> THEN [pc |-> "done", output |-> <<>>]
                              ELSE [pc |-> "write", output |-> written[1].text]]
    /\ UNCHANGED <<env, file, configFile, call, ret, sink, exporters, closed, otel,
                   providers, telemetry>>

\* e.writer.Write([]byte(output)) / fmt.Fprint(e.writer, output)
WriteStep ==
    /\ call = NoCall
    /\ \E x \in ExporterNames :
          /\ tasks[x].pc = "write"
          /\ LET output == tasks[x].output
                 n == IF exporters[x].writer = Stdout THEN Len(output) ELSE 1
             IN /\ sink' = Append(sink, [by |-> x, text |-> SubSeq(output, 1, n),
                                         ok |-> TRUE])
                /\ tasks' = [tasks EXCEPT
                       ![x] = IF n = Len(output) THEN [pc |-> "done", output |-> <<>>]
                              ELSE [pc |-> "write",
                                    output |-> SubSeq(output, n + 1, Len(output))]]
    /\ UNCHANGED <<env, file, configFile, call, ret, exporters, closed, otel, providers,
                   telemetry>>

InitShared ==
    /\ env = EmptyEnv
    /\ file = NoFile
    /\ configFile = ""
    /\ call = NoCall
    /\ ret = NoRet
    /\ sink = <<>>
    /\ \E w \in SharedWriters :
          exporters = [x \in ExporterNames |-> [NewExporter(x) EXCEPT !.writer = w]]
    /\ closed = {}
    /\ tasks = [x \in ExporterNames |-> Idle]
    /\ otel = NoGlobals
    /\ providers = NoProviders
    /\ telemetry = NotCreated

NextShared == FormatStep \/ WriteStep

SpecShared == InitShared /\ [][NextShared]_vars

\* C25: when the three exporters share one sink and export concurrently,
\* the text of each batch is in the sink as one contiguous block: between
\* two pieces written by one exporter there is no piece of another.
C25_BatchTextContiguous ==
    \A i, j, k \in 1..Len(sink) :
       (i < j /\ j < k /\ sink[i].by = sink[k].by) => sink[j].by = sink[i].by

\* the same with the writer of the process, the standard output
C25_ContiguousOnStdout ==
    (\A x \in ExporterNames : exporters[x].writer = Stdout) => C25_BatchTextContiguous

\* what Load has decoded from defaults, file and environment when it comes
\* to the preset step
Decoded ==
    decodeConfig(NewDefaultConfig(env),
                 AllSettings(env, ReadInConfig(file, configFile).doc), TRUE)

\* the file gives no value to any of the keys
FileSetsNone(keys) ==
    keys \cap DOMAIN AllSettings(env, ReadInConfig(file, configFile).doc) = {}

LoadedPreset ==
    /\ call.op \in {"Load", "LoadFromFile"}
    /\ ret.err = NoErr
    /\ ret.cfg.Kind \in KindNames

\* C27: in a Load that names a preset of the catalog, the preset step
\* changes nothing: the configuration after it is the one decoded from
\* defaults, file and environment, every block has its exporter with
\* module "console", and a block the file gives no value to equals the
\* default block, so the result differs from the defaults at most in Kind.
C27_PresetStepChangesNothing ==
    LoadedPreset =>
       /\ applyKindStep(Decoded) = [cfg |-> Decoded, err |-> NoErr]
       /\ ret.cfg = Decoded
       /\ \A s \in Signals : ret.cfg[s] # Nil /\ ret.cfg[s].Exporter # Nil
                             /\ ret.cfg[s].Exporter.Module = "console"
       /\ FileSetsNone(TracingKeys) => ret.cfg.Tracing = NewDefaultConfig(env).Tracing
       /\ FileSetsNone(MetricsKeys) => ret.cfg.Metrics = NewDefaultConfig(env).Metrics
       /\ FileSetsNone(LoggingKeys) => ret.cfg.Logging = NewDefaultConfig(env).Logging
       /\ file = NoFile => ret.cfg = [NewDefaultConfig(EmptyEnv) EXCEPT
                                        !.Kind = ret.cfg.Kind,
                                        !.Disabled = NewDefaultConfig(env).Disabled,
                                        !.ServiceName = NewDefaultConfig(env).ServiceName,
                                        !.Tracing.HRTime = NewDefaultConfig(env).Tracing.HRTime,
                                        !.Metrics.HostMetrics =
                                           NewDefaultConfig(env).Metrics.HostMetrics]

C27_Witness ==
    /\ call.op = "Load"
    /\ ret.err = NoErr
    /\ env = [EmptyEnv EXCEPT !["TELEMETRY_KIND"] = "telemetry-to-jaeger"]
    /\ file = NoFile
    /\ ret.cfg.Kind = "telemetry-to-jaeger"
    /\ ret.cfg.Tracing = NewDefaultConfig(EmptyEnv).Tracing
    /\ ret.cfg.Metrics = NewDefaultConfig(EmptyEnv).Metrics

(***************************************************************************)
(* The Telemetry instance.  New and the init methods work on a record of   *)
(* the instance under construction, the error and panic so far, the        *)
(* OpenTelemetry globals and the state of the providers of the SDK.        *)
(***************************************************************************)
TracerProvider(sampler) == [provider |-> "tracer", sampler |-> sampler]

MeterProvider(interval) == [provider |-> "meter", interval |-> interval]

Propagator == [propagator |-> <<"TraceContext", "Baggage">>]

\* &Telemetry{config: cfg, logger: ...}
Telemetry(cfg) ==
    [config |-> cfg, tracerProvider |-> Nil, meterProvider |-> Nil, resource |-> Nil]

\* WithConfig
WithConfig(cfg) == [option |-> "WithConfig", cfg |-> cfg]

\* for _, opt := range opts { opt(t) }
RECURSIVE applyOptions(_, _)
applyOptions(t, opts) ==
    IF opts = <<>> THEN t
    ELSE applyOptions([t EXCEPT !.config = Head(opts).cfg], Tail(opts))

Building(t, g, p) == [t |-> t, err |-> NoErr, panic |-> FALSE, otel |-> g, providers |-> p]

Stopped(s) == s.panic \/ s.err # NoErr

\* Telemetry.initResource; ok is the outcome of resource.Merge
initResource(s, ok) ==
    IF s.t.config = Nil THEN [s EXCEPT !.panic = TRUE]
    ELSE IF ~ok THEN [s EXCEPT !.err = <<"failed to create resource">>]
    ELSE [s EXCEPT !.t.resource =
             [service |-> IF s.t.config.ServiceName = "" THEN "CAP Application"
                          ELSE s.t.config.ServiceName]]

\* Telemetry.initTracing
initTracing(s) ==
    LET c == s.t.config
    IN  IF c.Tracing = Nil THEN [s EXCEPT !.panic = TRUE]
        ELSE IF c.Tracing.Exporter = Nil THEN [s EXCEPT !.panic = TRUE]
        ELSE IF c.Tracing.Exporter.Module # "console"
        THEN [s EXCEPT !.err = <<"unsupported trace exporter">>]
        ELSE LET tp == TracerProvider(createSampler(c.Tracing.Sampler))
             IN  [s EXCEPT !.t.tracerProvider = tp,
                           !.providers.tracer = "running",
                           !.otel.TracerProvider = tp,
                           !.otel.TextMapPropagator = Propagator]

\* Telemetry.initMetrics
initMetrics(s) ==
    LET c == s.t.config
    IN  IF c.Metrics = Nil THEN [s EXCEPT !.panic = TRUE]
        ELSE IF c.Metrics.Exporter = Nil THEN [s EXCEPT !.panic = TRUE]
        ELSE IF c.Metrics.Exporter.Module # "console"
        THEN [s EXCEPT !.err = <<"unsupported metric exporter">>]
        ELSE IF c.Metrics.Config = Nil THEN [s EXCEPT !.panic = TRUE]
        ELSE LET mp == MeterProvider(GetExportInterval(c.Metrics.Config))
             IN  [s EXCEPT !.t.meterProvider = mp,
                           !.providers.meter = "running",
                           !.otel.MeterProvider = mp]

\* return nil, fmt.Errorf(what, err), or the panic leaving New
Left(s, what) ==
    [s EXCEPT !.t = Nil, !.err = IF s.panic THEN NoErr ELSE <<what>> \o s.err]

\* New from the test of cfg.IsMetricsEnabled() on
newMetrics(cfg, s) ==
    IF Stopped(s) THEN Left(s, "failed to initialize tracing")
    ELSE IF ~IsMetricsEnabled(cfg) THEN s
    ELSE IF Stopped(initMetrics(s)) THEN Left(initMetrics(s), "failed to initialize metrics")
    ELSE initMetrics(s)

\* New from the test of cfg.IsTracingEnabled() on
newTracing(cfg, s) ==
    IF Stopped(s) THEN Left(s, "failed to initialize resource")
    ELSE newMetrics(cfg, IF IsTracingEnabled(cfg) THEN initTracing(s) ELSE s)

\* New from the creation of the instance on, with the loaded configuration
newInstance(cfg, opts, resourceOk, g, p) ==
    IF ~IsEnabled(cfg) THEN Building(applyOptions(Telemetry(cfg), opts), g, p)
    ELSE newTracing(cfg, initResource(Building(applyOptions(Telemetry(cfg), opts), g, p),
                                      resourceOk))

\* New from the result of loader.Load() on
newLoaded(ld, opts, resourceOk, g, p) ==
    IF ld.err # NoErr
    THEN Left([Building(Nil, g, p) EXCEPT !.err = ld.err], "failed to load configuration")
    ELSE newInstance(ld.cfg, opts, resourceOk, g, p)

\* New; g and p are the globals and the providers as New finds them
New(e, f, cf, opts, resourceOk, g, p) ==
    newLoaded(Load(e, f, cf), opts, resourceOk, g, p)

\* the providers after the Shutdown of the provider of the instance
stop(p, which, provider) ==
    IF provider = Nil THEN p ELSE [p EXCEPT ![which] = "shutdown"]

Shutdown_ReturnsAtFirstError(t, p, tracerOk, meterOk) ==
    IF t.tracerProvider # Nil /\ ~tracerOk
    THEN [err |-> <<"shutdown errors", "failed to shutdown tracer provider">>,
          attempted |-> {"tracer"},
          providers |-> stop(p, "tracer", t.tracerProvider)]
    ELSE [err |-> IF t.meterProvider # Nil /\ ~meterOk
                  THEN <<"shutdown errors", "failed to shutdown meter provider">>
                  ELSE NoErr,
          attempted |-> {w \in {"tracer"} : t.tracerProvider # Nil}
                        \cup {w \in {"meter"} : t.meterProvider # Nil},
          providers |-> stop(stop(p, "tracer", t.tracerProvider), "meter", t.meterProvider)]

\* Telemetry.Shutdown; tracerOk and meterOk are the outcomes of the
\* providers' own Shutdown
Shutdown(t, p, tracerOk, meterOk) ==
    LET errors ==
           (IF t.tracerProvider # Nil /\ ~tracerOk
            THEN <<"failed to shutdown tracer provider">> ELSE <<>>)
           \o (IF t.meterProvider # Nil /\ ~meterOk
               THEN <<"failed to shutdown meter provider">> ELSE <<>>)
    IN  [err |-> IF Len(errors) > 0 THEN <<"shutdown errors">> \o errors ELSE NoErr,
         attempted |-> {w \in {"tracer"} : t.tracerProvider # Nil}
                       \cup {w \in {"meter"} : t.meterProvider # Nil},
         providers |-> stop(stop(p, "tracer", t.tracerProvider), "meter", t.meterProvider)]

\* bounded inputs: the configurations handed to WithConfig, the environments
\* and the files of the process, and at most MaxShutdowns calls of Shutdown
MaxShutdowns == 2

DefaultConfig == NewDefaultConfig(EmptyEnv)

OptionConfigs ==
    {DefaultConfig,
     [DefaultConfig EXCEPT !.Disabled = TRUE],
     [DefaultConfig EXCEPT !.Tracing.Enabled = FALSE],
     [DefaultConfig EXCEPT !.Metrics.Enabled = FALSE],
     [DefaultConfig EXCEPT !.Tracing.Exporter.Module = "otlp"],
     [DefaultConfig EXCEPT !.Metrics.Exporter.Module = "otlp"],
     [DefaultConfig EXCEPT !.Tracing = Nil],
     Nil}

OptionSets == {<<>>} \cup {<<WithConfig(c)>> : c \in OptionConfigs}

TelemetryEnvs ==
    {EmptyEnv, [EmptyEnv EXCEPT !["NO_TELEMETRY"] = "yes"],
     [EmptyEnv EXCEPT !["TELEMETRY_KIND"] = "bogus"]}

TelemetryFiles ==
    {NoFile, Malformed, Doc(Frag("tracing.enabled", B(FALSE))),
     Doc(Frag("metrics.enabled", B(FALSE)))}

\* the state after New has left with r
Created(opts, resourceOk, r) ==
    /\ call' = [op |-> "New", opts |-> opts, resourceOk |-> resourceOk]
    /\ ret' = [t |-> r.t, err |-> r.err, panic |-> r.panic]
    /\ otel' = r.otel
    /\ providers' = r.providers
    /\ telemetry' = [created |-> TRUE, t |-> r.t, shutdowns |-> 0]

NewCall ==
    /\ call = NoCall
    /\ telemetry = NotCreated
    /\ \E opts \in OptionSets, resourceOk \in BOOLEAN :
          Created(opts, resourceOk,
                  New(env, file, configFile, opts, resourceOk, otel, providers))
    /\ configFile' = IF configFile = "" /\ ReadInConfig(file, configFile).found
                     THEN SearchedFile ELSE configFile
    /\ UNCHANGED <<env, file, sink, exporters, closed, tasks>>

ShutdownCall ==
    /\ call = NoCall
    /\ telemetry.created
    /\ telemetry.t # Nil
    /\ telemetry.shutdowns < MaxShutdowns
    /\ \E tracerOk \in BOOLEAN, meterOk \in BOOLEAN :
          LET r == Shutdown(telemetry.t, providers, tracerOk, meterOk)
          IN  /\ call' = [op |-> "Telemetry.Shutdown", tracerOk |-> tracerOk,
                          meterOk |-> meterOk]
              /\ ret' = [err |-> r.err, attempted |-> r.attempted]
              /\ providers' = r.providers
    /\ telemetry' = [telemetry EXCEPT !.shutdowns = @ + 1]
    /\ UNCHANGED <<env, file, configFile, sink, exporters, closed, tasks, otel>>

(***************************************************************************)
(* SpecTelemetry: a process that calls New once and then Shutdown on the   *)
(* instance it got.                                                        *)
(***************************************************************************)
InitTelemetry ==
    /\ env \in TelemetryEnvs
    /\ file \in TelemetryFiles
    /\ configFile = ""
    /\ call = NoCall
    /\ ret = NoRet
    /\ InitRuntime

NextTelemetry == NewCall \/ ShutdownCall \/ Return

SpecTelemetry == InitTelemetry /\ [][NextTelemetry]_vars

\* the configuration given with WithConfig in the pending call of New
Given == call.opts[1].cfg

NewWithConfig ==
    /\ call.op = "New"
    /\ call.opts # <<>>
    /\ call.opts[1].cfg # Nil

\* C28: New(WithConfig(c)) is governed by c: it gives an instance, whose
\* tracer provider exists exactly when c is enabled and enables tracing and
\* whose meter provider exists exactly when c is enabled and enables
\* metrics, whatever file and environment say, and it fails exactly when an
\* enabled signal of c has an exporter module that is not "console".
C28_GovernedByGivenConfig ==
    (NewWithConfig /\ call.resourceOk
     /\ Given.Tracing # Nil /\ Given.Metrics # Nil) =>
       LET unsupported ==
              \/ IsTracingEnabled(Given) /\ Given.Tracing.Exporter.Module # "console"
              \/ IsMetricsEnabled(Given) /\ Given.Metrics.Exporter.Module # "console"
       IN  /\ ~ret.panic
           /\ ret.err # NoErr <=> unsupported
           /\ ~unsupported =>
                 /\ ret.t # Nil
                 /\ ret.t.tracerProvider # Nil <=> IsTracingEnabled(Given)
                 /\ ret.t.meterProvider # Nil <=> IsMetricsEnabled(Given)

\* C29: New is all-or-nothing: when it returns an error it returns no
\* instance, and no global tracer provider, meter provider or propagator is
\* installed and no provider is left running.
C29_AllOrNothing ==
    (call.op = "New" /\ ret.err # NoErr) =>
       /\ ret.t = Nil
       /\ otel = NoGlobals
       /\ providers = NoProviders

\* the configuration Load resolves in this process
Resolved == Load(env, file, configFile)

Existing(t) ==
    {w \in {"tracer"} : t.tracerProvider # Nil} \cup {w \in {"meter"} : t.meterProvider # Nil}

\* C30: when the configuration Load resolves is disabled, New gives an
\* instance without tracer and meter provider and installs nothing
\* globally; and every Shutdown, first or repeated, calls the Shutdown of
\* each provider the instance has, also when the other one's failed, and
\* returns success exactly when none of them failed.
C30_DisabledAndShutdown ==
    /\ (call.op = "New" /\ Resolved.err = NoErr /\ ~IsEnabled(Resolved.cfg)) =>
          /\ ret.err = NoErr /\ ~ret.panic
          /\ ret.t # Nil
          /\ ret.t.tracerProvider = Nil /\ ret.t.meterProvider = Nil
          /\ otel = NoGlobals /\ providers = NoProviders
    /\ call.op = "Telemetry.Shutdown" =>
          /\ ret.attempted = Existing(telemetry.t)
          /\ \A w \in ret.attempted : providers[w] = "shutdown"
          /\ ret.err = NoErr <=>
                /\ "tracer" \in ret.attempted => call.tracerOk
                /\ "meter" \in ret.attempted => call.meterOk

C30_Witness ==
    /\ call.op = "Telemetry.Shutdown"
    /\ telemetry.shutdowns = 2
    /\ ret.attempted = {"tracer", "meter"}
    /\ ~call.tracerOk /\ call.meterOk
    /\ ret.err # NoErr
    /\ providers.meter = "shutdown"

C30_WitnessDisabled ==
    /\ call.op = "New"
    /\ env.NO_TELEMETRY = "yes"
    /\ call.opts = <<>>
    /\ ret.err = NoErr
    /\ ret.t # Nil
    /\ otel = NoGlobals

====
